---- MODULE Spec2Model ----
(***************************************************************************)
(* Content-commit and pull-request orchestration of geomodulus/robots      *)
(* (package github): CreateOrUpdateArticlePullRequest,                     *)
(* CreateOrUpdatePlacePullRequest, CreateArticleCommit, newBranchRef,      *)
(* createPRWithRetry and treeEntriesFromParams, run by concurrent publish  *)
(* calls against one repository host.  Every host round trip of a call is  *)
(* one step; the host (refs, commits, pull requests) is the only shared    *)
(* state.                                                                  *)
(***************************************************************************)
EXTENDS Integers, Sequences, FiniteSets, TLC

\* ---------------------------------------------------------------- bounds
\* Last second of the model clock (time.Now() at second resolution).
MaxTime == 1
\* Error responses without the race signature that the host gives to
\* create-pull-request attempts, over the whole run.
MaxOtherResponses == 1
\* Race failures of create-pull-request over a run of one call.
MaxRaces == 11
\* Race failures of create-pull-request while two calls run at once.
MaxConcurrentRaces == 1
\* Commits other actors push to main during the run.
MaxPushes == 1
\* Race failures of create-pull-request in the runs whose caller cancels.
MaxCancelRaces == 1
\* Options a caller passes to one call in the runs that exercise the builder.
MaxOptions == 3
\* Articles handed to one run of the search indexer.
MaxArticles == 2
\* Requests of the search indexer that may fail, over all its runs.
MaxSearchFailures == 1
\* Events the chat platform delivers to the bot over a run.
MaxEvents == 2
\* Block actions, or view inputs, of one interactive event.
MaxActions == 2

\* ------------------------------------------------------- program constants
baseDelay == 2
maxDelay == 30
maxRetries == 10

\* The publish calls of the run; each executes on its own thread of control.
Calls == {"c1", "c2"}

Kinds == {"article", "place", "commit"}

VARIABLES
    now,      \* the clock, in seconds
    quota,    \* create-pull-request failures the host may still answer with, by kind
    inputs,   \* per call: the (entry point, option list) pairs it may be started with
    bot,      \* the chat bot: its event queue, position and the responses it sent
    search,   \* the search indexer: its articles, the vector index, its run and requests
    options,  \* per call: the options the caller passed, in order
    pushes,   \* commits pushed to main by other actors so far
    cancelled,\* per call: the caller has cancelled the call's context
    refs,     \* host: ref name -> commit SHA (0: the ref does not exist)
    commits,  \* host: commits[sha] = [parents, tree, message]
    prs,      \* host: prs[number] = the pull request record
    kind,     \* per call: the entry point called (article, place, commit)
    pc,       \* per call: the next step
    params,   \* per call: Params after the options were applied
    slug,     \* per call: the slug argument
    local,    \* per call: the local variables of the publish function
    ret,      \* per call: the returned values
    log       \* per call: host calls, formatter calls and sleeps issued so far

vars == <<now, quota, inputs, bot, search, options, pushes, cancelled, refs, commits, prs, kind, pc, params, slug, local, ret, log>>

hostVars == <<refs, commits, prs>>

\* ------------------------------------------------------------ host naming
Min(a, b) == IF a < b THEN a ELSE b

\* "scottie-" + time.Now().Format("20060102-150405"): one name per second.
newBranch(t) == "scottie-" \o ToString(t)

BranchNames == {"main", "feature", "old"} \cup {newBranch(t) : t \in 0..MaxTime}

HeadsRef(branch) == "refs/heads/" \o branch

RefNames == {HeadsRef(b) : b \in BranchNames}

\* The host names a pull request's head by its branch, whether the request
\* gave the branch or the full ref.
BranchOfHead(head) ==
    IF head \in BranchNames THEN head
    ELSE CHOOSE b \in BranchNames : HeadsRef(b) = head

HTMLURL(number) == "https://host/pull/" \o ToString(number)

RECURSIVE IsAncestor(_, _)
\* a is b or an ancestor of b in the host's commit graph.
IsAncestor(a, b) ==
    IF b = 0 THEN FALSE
    ELSE IF a = b THEN TRUE
    ELSE \E j \in DOMAIN commits[b].parents : IsAncestor(a, commits[b].parents[j])

\* The host accepts an update of a ref without force only as a fast-forward.
HostAcceptsUpdate(ref, sha, force) ==
    /\ ref \in RefNames
    /\ refs[ref] # 0
    /\ sha \in DOMAIN commits
    /\ (force \/ IsAncestor(refs[ref], sha))

\* The host creates a ref only under a name that is free.
HostAcceptsCreateRef(ref, sha) ==
    /\ ref \in RefNames
    /\ refs[ref] = 0
    /\ sha \in DOMAIN commits

\* The error entry of the read-after-write race on pull-request creation.
RaceEntry(head) == [Code |-> "custom", Message |-> "No commits between main and " \o head]

\* The errors PullRequests.Create can answer with: host error responses
\* (*gh.ErrorResponse) with their entries, and errors of any other kind.
CreateErrors(head) ==
    { [IsErrorResponse |-> TRUE, Errors |-> <<RaceEntry(head)>>],
      [IsErrorResponse |-> TRUE,
       Errors |-> <<[Code |-> "invalid", Message |-> ""], RaceEntry(head)>>],
      [IsErrorResponse |-> TRUE,
       Errors |-> <<[Code |-> "custom", Message |-> "A pull request already exists"]>>],
      [IsErrorResponse |-> TRUE, Errors |-> <<>>],
      [IsErrorResponse |-> FALSE, Errors |-> <<>>] }

\* ------------------------------------------------------------- the values
NoRef == [Ref |-> "", SHA |-> 0]
NoPR == [Number |-> 0, HTMLURL |-> "", State |-> "", Head |-> "", Base |-> "", Reviewers |-> {}]
NoTree == [base |-> 0, entries |-> <<>>]
NoErr == <<>>

NoLocal ==
    [pr |-> NoPR, baseCommitSHA |-> 0, ref |-> NoRef, prBranchRef |-> NoRef,
     activePR |-> NoPR, treeEntries |-> <<>>, baseSHA |-> 0, tree |-> NoTree,
     parentCommit |-> 0, commit |-> 0, i |-> 0, retryErr |-> NoErr]

NoRet == [num |-> 0, url |-> "", sha |-> 0, err |-> NoErr]

NoArticle == [present |-> FALSE, GeoJSONDatasets |-> <<>>]

NoParams ==
    [InArchive |-> FALSE, Article |-> NoArticle, Place |-> FALSE, BodyHTML |-> "",
     ArticleJS |-> "", Locations |-> "", CommitMessage |-> "", PRTitle |-> "",
     PRBody |-> "", PRNum |-> 0, TeaserGeoJSON |-> "", TeaserJS |-> ""]

\* ------------------------------------------------------------ the builder
Wrap(msg, err) == <<msg>> \o err

\* prettier.Format: the formatter is an external program; it fails on the
\* files of `bad` and otherwise answers the formatted text.
Format(code, filePath, bad) ==
    IF filePath \in bad
    THEN [out |-> "", err |-> <<"error waiting for command">>]
    ELSE [out |-> "pretty:" \o code, err |-> NoErr]

\* json.MarshalIndent(article, "", "  ")
MarshalIndent(article) ==
    IF article.GeoJSONDatasets = <<>> THEN "{}"
    ELSE "{\n  \"geojson_datasets\": [\"" \o article.GeoJSONDatasets[1] \o "\"]\n}"

\* Mutant: the file is committed as an executable.
TreeEntryMutant(filePath, content) ==
    [Path |-> filePath, Mode |-> "100755", Type |-> "blob", Content |-> content]

\* &gh.TreeEntry{Path, Mode: "100644", Type: "blob", Content}
TreeEntry(filePath, content) ==
    [Path |-> filePath, Mode |-> "100644", Type |-> "blob", Content |-> content]

\* One formatted file: the shape shared by articleTreeEntry, articleBodyHTML,
\* articleJS, articleTeaserGeoJSON and articleTeaserJS.  `offending` is what
\* the error carries after the formatter's own message.
FormattedEntry(filePath, code, bad, msg, offending) ==
    LET f == Format(code, filePath, bad) IN
    IF f.err # NoErr
    THEN [entries |-> <<>>, err |-> Wrap(msg, f.err) \o offending, formatted |-> <<filePath>>]
    ELSE [entries |-> <<TreeEntry(filePath, f.out)>>, err |-> NoErr, formatted |-> <<filePath>>]

articleTreeEntry(path, article, bad) ==
    FormattedEntry(path \o "/article.json", MarshalIndent(article), bad,
                   "error formatting json", <<>>)

articleBodyHTML(path, bodyHTML, bad) ==
    FormattedEntry(path \o "/article.html", bodyHTML, bad,
                   "error formatting html", <<"offending html:", bodyHTML>>)

articleJS(path, js, bad) ==
    FormattedEntry(path \o "/article.js", js, bad,
                   "error formatting javascript", <<"offending javascript:", js>>)

articleTeaserGeoJSON(path, geoJSON, bad) ==
    FormattedEntry(path \o "/teaser.geojson", geoJSON, bad,
                   "error formatting javascript", <<>>)

articleTeaserJS(path, js, bad) ==
    FormattedEntry(path \o "/teaser.js", js, bad, "error formatting javascript", <<>>)

articleGeoJSONDatasets(path, locations, bad) ==
    LET first == FormattedEntry(path \o "/locations.geojson", locations, bad,
                                "error formatting javascript", <<>>)
        second == FormattedEntry(path \o "/locations.js", "console.debug('locations.js');",
                                 bad, "error formatting javascript", <<>>)
    IN  IF first.err # NoErr THEN first
        ELSE IF second.err # NoErr
             THEN [entries |-> <<>>, err |-> second.err,
                   formatted |-> first.formatted \o second.formatted]
             ELSE [entries |-> first.entries \o second.entries, err |-> NoErr,
                   formatted |-> first.formatted \o second.formatted]

\* Mutant: the entry list starts with an entry.
NoEntriesMutant ==
    [entries |-> <<TreeEntry("", "")>>, err |-> NoErr, formatted |-> <<>>]

\* treeEntries := []*gh.TreeEntry{}
NoEntries == [entries |-> <<>>, err |-> NoErr, formatted |-> <<>>]

\* Mutant: the locations are emitted whenever they are given.
EmitsLocationsMutant(p) == p.Locations # ""

\* (params.Article != nil) && (params.Locations != "") &&
\* len(GeoJSONDatasets) > 0 && GeoJSONDatasets[0].Name == "locations"
EmitsLocations(p) ==
    /\ p.Article.present
    /\ p.Locations # ""
    /\ Len(p.Article.GeoJSONDatasets) > 0
    /\ p.Article.GeoJSONDatasets[1] = "locations"

\* The artifacts of treeEntriesFromParams in the order the function visits
\* them; an artifact that is absent contributes nothing.
ArtifactStep(k, path, p, bad) ==
    CASE k = 1 -> IF p.Article.present
                  THEN [r |-> articleTreeEntry(path, p.Article, bad),
                        msg |-> "error creating article tree entry"]
                  ELSE [r |-> NoEntries, msg |-> ""]
      [] k = 2 -> IF p.BodyHTML # ""
                  THEN [r |-> articleBodyHTML(path, p.BodyHTML, bad),
                        msg |-> "error creating article body html tree entry"]
                  ELSE [r |-> NoEntries, msg |-> ""]
      [] k = 3 -> IF p.ArticleJS # ""
                  THEN [r |-> articleJS(path, p.ArticleJS, bad),
                        msg |-> "error creating article js tree entry"]
                  ELSE [r |-> NoEntries, msg |-> ""]
      [] k = 4 -> IF p.TeaserGeoJSON # ""
                  THEN [r |-> articleTeaserGeoJSON(path, p.TeaserGeoJSON, bad),
                        msg |-> "error creating article teaser geojson tree entry"]
                  ELSE [r |-> NoEntries, msg |-> ""]
      [] k = 5 -> IF p.TeaserJS # ""
                  THEN [r |-> articleTeaserJS(path, p.TeaserJS, bad),
                        msg |-> "error creating article teaser js tree entry"]
                  ELSE [r |-> NoEntries, msg |-> ""]
      [] OTHER -> IF EmitsLocations(p)
                  THEN [r |-> articleGeoJSONDatasets(path, p.Locations, bad),
                        msg |-> "error creating article geojson datasets tree entries"]
                  ELSE [r |-> NoEntries, msg |-> ""]

\* Mutant: new entries go in front.
AppendEntriesMutant(treeEntries, new) == new \o treeEntries

\* treeEntries = append(treeEntries, entry)
AppendEntries(treeEntries, new) == treeEntries \o new

RECURSIVE treeEntriesFrom(_, _, _, _, _)
\* The rest of treeEntriesFromParams from artifact k on, `acc` being the
\* entries appended so far: the first failure returns nil and the error.
treeEntriesFrom(k, path, p, bad, acc) ==
    IF k > 6 THEN acc
    ELSE LET s == ArtifactStep(k, path, p, bad) IN
         IF s.r.err # NoErr
         THEN [entries |-> <<>>, err |-> Wrap(s.msg, s.r.err),
               formatted |-> acc.formatted \o s.r.formatted]
         ELSE treeEntriesFrom(k + 1, path, p, bad,
                              [entries |-> AppendEntries(acc.entries, s.r.entries),
                               err |-> NoErr,
                               formatted |-> acc.formatted \o s.r.formatted])

treeEntriesFromParams(path, p, bad) == treeEntriesFrom(1, path, p, bad, NoEntries)

\* The inline builder of CreateOrUpdatePlacePullRequest: poi.json, body.html.
placeTreeEntries(s, p, bad) ==
    LET json == IF p.Place
                THEN FormattedEntry("active_places/" \o s \o "/poi.json", "{}", bad,
                                    "error formatting json", <<>>)
                ELSE NoEntries
        html == IF p.BodyHTML # ""
                THEN FormattedEntry("active_places/" \o s \o "/body.html", p.BodyHTML, bad,
                                    "error formatting html", <<"offending html:", p.BodyHTML>>)
                ELSE NoEntries
    IN  IF json.err # NoErr THEN json
        ELSE IF html.err # NoErr
             THEN [entries |-> <<>>, err |-> html.err,
                   formatted |-> json.formatted \o html.formatted]
             ELSE [entries |-> json.entries \o html.entries, err |-> NoErr,
                   formatted |-> json.formatted \o html.formatted]

\* articlePath := maybeArchive + "articles/" + slug
articlePath(s, p) == (IF p.InArchive THEN "archive/" ELSE "") \o "articles/" \o s

\* The files a build of p would hand to the formatter if nothing failed.
FilesOf(k, s, p) ==
    LET r == IF k = "place" THEN placeTreeEntries(s, p, {})
             ELSE treeEntriesFromParams(articlePath(s, p), p, {})
    IN  {r.formatted[j] : j \in DOMAIN r.formatted}


\* ------------------------------------------------------------- the inputs
LocationsArticle == [present |-> TRUE, GeoJSONDatasets |-> <<"locations">>]

\* An option: the field of Params it sets and the value it sets it to.
Option(field, val) == [field |-> field, val |-> val]

InArchive == Option("InArchive", TRUE)
WithArticle(article) == Option("Article", article)
WithPlace == Option("Place", TRUE)
WithBodyHTML == Option("BodyHTML", "<p>x</p>")
WithArticleJS == Option("ArticleJS", "let x;")
WithLocations == Option("Locations", "{\"features\":[]}")
WithTeaserGeoJSON == Option("TeaserGeoJSON", "{\"type\":\"Feature\"}")
WithTeaserJS == Option("TeaserJS", "let t;")

\* opt(&params)
ApplyOption(p, o) ==
    CASE o.field = "InArchive" -> [p EXCEPT !.InArchive = o.val]
      [] o.field = "Article" -> [p EXCEPT !.Article = o.val]
      [] o.field = "Place" -> [p EXCEPT !.Place = o.val]
      [] o.field = "BodyHTML" -> [p EXCEPT !.BodyHTML = o.val]
      [] o.field = "ArticleJS" -> [p EXCEPT !.ArticleJS = o.val]
      [] o.field = "Locations" -> [p EXCEPT !.Locations = o.val]
      [] o.field = "TeaserGeoJSON" -> [p EXCEPT !.TeaserGeoJSON = o.val]
      [] OTHER -> [p EXCEPT !.TeaserJS = o.val]

RECURSIVE ApplyOptions(_, _)
\* for _, opt := range opts { opt(&params) }
ApplyOptions(opts, p) ==
    IF opts = <<>> THEN p
    ELSE ApplyOptions(Tail(opts), ApplyOption(p, Head(opts)))

\* The option lists publish calls are started with: none, a body, an article
\* with its locations, locations without an article, a place with a body.
OptionLists ==
    { <<>>,
      <<WithBodyHTML>>,
      <<WithArticle(LocationsArticle), WithLocations>>,
      <<WithLocations>>,
      <<WithPlace, WithBodyHTML>> }

\* The artifact sets these option lists make.
ArtifactSets == {ApplyOptions(o, NoParams) : o \in OptionLists}

\* The options of the calls that exercise the builder.
BuildOptions ==
    { InArchive, WithBodyHTML, WithArticleJS, WithLocations, WithTeaserGeoJSON, WithTeaserJS,
      WithArticle(LocationsArticle),
      WithArticle([present |-> TRUE, GeoJSONDatasets |-> <<>>]),
      WithArticle([present |-> TRUE, GeoJSONDatasets |-> <<"other">>]) }

\* Every list of at most MaxOptions of them.
BuildOptionLists ==
    UNION {[1..n -> BuildOptions] : n \in 0..MaxOptions}

Slugs == {"slug"}

\* The entry points with the artifact sets they are called with.
AllInputs ==
    {in \in Kinds \X OptionLists :
        IF in[1] = "place" THEN WithPlace \in {in[2][j] : j \in DOMAIN in[2]} \/ in[2] = <<>>
        ELSE WithPlace \notin {in[2][j] : j \in DOMAIN in[2]}}

\* The inputs of the calls that run concurrently: a body to publish.
ConcurrentInputs ==
    { <<"article", <<WithBodyHTML>> >>,
      <<"place", <<WithPlace, WithBodyHTML>> >> }

\* The change set of p is empty: every artifact is absent or the empty string.
EmptyChangeSet(p) ==
    /\ ~p.Article.present
    /\ ~p.Place
    /\ p.BodyHTML = "" /\ p.ArticleJS = "" /\ p.Locations = ""
    /\ p.TeaserGeoJSON = "" /\ p.TeaserJS = ""

\* ---------------------------------------------------------------- the log
\* sent: the request went out to the host (formatter calls and sleeps: ran).
Entry(op, ref, n, ok) ==
    [op |-> op, ref |-> ref, n |-> n, ok |-> ok, force |-> FALSE,
     err |-> IF ok THEN "" ELSE "error", sent |-> TRUE]

\* The host calls of a publish call.
HostOps ==
    {"GetRef", "CreateRef", "GetPR", "CreateTree", "GetCommit", "CreateCommit",
     "UpdateRef", "CreatePR", "RequestReviewers"}

\* Mutant: the calls are made with a context of their own.
ctxDoneMutant(c) == FALSE

\* The ctx handed to every host call is done: the client answers such a call
\* with the context's error and sends nothing.
ctxDone(c) == cancelled[c]

Logged(c, e) ==
    log' = [log EXCEPT ![c] =
              Append(@, IF e.op \in HostOps /\ ctxDone(c) THEN [e EXCEPT !.sent = FALSE]
                        ELSE e)]

\* The entries of call c's log with operation op.
Issued(c, op) == {k \in DOMAIN log[c] : log[c][k].op = op}

\* Mutant: the failed step is tried again.
FailMutant(c, err) == UNCHANGED <<pc, ret>>

\* return 0, "", err
Fail(c, err) ==
    /\ pc' = [pc EXCEPT ![c] = "done"]
    /\ ret' = [ret EXCEPT ![c] = [NoRet EXCEPT !.err = err]]

\* The search indexer before Generate: no articles, an empty index.
NoSearch ==
    [articles |-> <<>>, index |-> <<>>, run |-> 0, pos |-> 0, failures |-> 0, out |-> <<>>]

\* The handler interfaces of the bot, by the event they serve.
AllHandlers == {"app_mention", "message", "slash_commands", "block_actions", "view_submission"}

NoEvent == [id |-> 0, type |-> "", ok |-> FALSE, inner |-> "", n |-> 0]

\* The bot before Run: nothing queued, nothing sent, every handler installed.
NoBot ==
    [pc |-> "range", handlers |-> AllHandlers, queue |-> <<>>, evt |-> NoEvent, i |-> 0,
     arrived |-> 0, out |-> <<>>]

\* -------------------------------------------------------------- the state
Init ==
    /\ now = 0
    /\ quota = [race |-> MaxRaces, other |-> MaxOtherResponses]
    /\ inputs = [c \in Calls |-> IF c = "c1" THEN AllInputs ELSE {}]
    /\ bot = NoBot
    /\ search = NoSearch
    /\ options = [c \in Calls |-> <<>>]
    /\ pushes = 0
    /\ cancelled = [c \in Calls |-> FALSE]
    /\ refs = [r \in RefNames |->
                 CASE r = HeadsRef("main") -> 1
                   [] r = HeadsRef("feature") -> 2
                   [] r = HeadsRef("old") -> 3
                   [] OTHER -> 0]
    /\ commits = << [parents |-> <<>>, tree |-> NoTree, message |-> "root"],
                    [parents |-> <<1>>, tree |-> NoTree, message |-> "feature"],
                    [parents |-> <<1>>, tree |-> NoTree, message |-> "old"] >>
    /\ prs = << [Number |-> 1, HTMLURL |-> HTMLURL(1), State |-> "open", Head |-> "feature",
                 Base |-> "main", Reviewers |-> {}],
                [Number |-> 2, HTMLURL |-> HTMLURL(2), State |-> "closed", Head |-> "old",
                 Base |-> "main", Reviewers |-> {}] >>
    /\ kind = [c \in Calls |-> "article"]
    /\ pc = [c \in Calls |-> "idle"]
    /\ params = [c \in Calls |-> NoParams]
    /\ slug = [c \in Calls |-> ""]
    /\ local = [c \in Calls |-> NoLocal]
    /\ ret = [c \in Calls |-> NoRet]
    /\ log = [c \in Calls |-> <<>>]


\* ------------------------------------------------------- branch resolution
\* A caller starts a publish call: the options are applied to Params and the
\* function branches on PRNum (CreateArticleCommit reads main first).
Start(c) ==
    /\ pc[c] = "idle"
    /\ c = "c2" => pc["c1"] # "idle"
    /\ \E in \in inputs[c], s \in Slugs, n \in {0} \cup DOMAIN prs :
        LET k == in[1]
            a == ApplyOptions(in[2], NoParams)
        IN  /\ k = "commit" => n = 0
            /\ kind' = [kind EXCEPT ![c] = k]
            /\ slug' = [slug EXCEPT ![c] = s]
            /\ options' = [options EXCEPT ![c] = in[2]]
            /\ params' = [params EXCEPT ![c] =
                            IF k = "commit"
                            THEN [a EXCEPT !.CommitMessage = "message"]
                            ELSE [a EXCEPT !.PRNum = n, !.PRTitle = "title",
                                           !.PRBody = "This PR was created dynamically."]]
            /\ pc' = [pc EXCEPT ![c] = IF k = "commit" THEN "CommitGetRef"
                                       ELSE IF n = 0 THEN "GetMainRef" ELSE "GetPR"]
    /\ UNCHANGED <<now, quota, inputs, bot, search, pushes, cancelled, hostVars, local, ret, log>>

\* Mutant: the closed state is tested under another name.
IsClosedMutant(pr) == pr.State = "merged"

\* if *pr.State == "closed"
IsClosed(pr) == pr.State = "closed"

\* pr, _, err := a.PullRequests.Get(ctx, a.Owner, a.Repo, params.PRNum)
GetPR(c) ==
    /\ pc[c] = "GetPR"
    /\ \/ /\ Logged(c, Entry("GetPR", "", params[c].PRNum, FALSE))
          /\ Fail(c, <<"error getting PR">>)
          /\ UNCHANGED local
       \/ /\ ~ctxDone(c)
          /\ Logged(c, Entry("GetPR", "", params[c].PRNum, TRUE))
          /\ local' = [local EXCEPT ![c].pr = prs[params[c].PRNum]]
          /\ pc' = [pc EXCEPT ![c] =
                      IF IsClosed(prs[params[c].PRNum]) THEN "GetMainRef"
                      ELSE "GetHeadRef"]
          /\ UNCHANGED ret
    /\ UNCHANGED <<now, quota, inputs, bot, search, options, pushes, cancelled, hostVars, kind, params, slug>>

\* prBranchRef, _, err = a.Git.GetRef(..., "refs/heads/"+pr.GetHead().GetRef())
GetHeadRef(c) ==
    LET name == HeadsRef(local[c].pr.Head) IN
    /\ pc[c] = "GetHeadRef"
    /\ \/ /\ Logged(c, Entry("GetRef", name, 0, FALSE))
          /\ Fail(c, <<"error getting reference">>)
          /\ UNCHANGED local
       \/ /\ ~ctxDone(c)
          /\ refs[name] # 0
          /\ Logged(c, Entry("GetRef", name, refs[name], TRUE))
          /\ local' = [local EXCEPT ![c].prBranchRef = [Ref |-> name, SHA |-> refs[name]],
                                    ![c].activePR = local[c].pr]
          /\ pc' = [pc EXCEPT ![c] = "Build"]
          /\ UNCHANGED ret
    /\ UNCHANGED <<now, quota, inputs, bot, search, options, pushes, cancelled, hostVars, kind, params, slug>>

\* newBranchRef, first half: ref, _, err := a.Git.GetRef(..., "refs/heads/main")
GetMainRef(c) ==
    LET name == HeadsRef("main") IN
    /\ pc[c] = "GetMainRef"
    /\ \/ /\ Logged(c, Entry("GetRef", name, 0, FALSE))
          /\ Fail(c, <<"error creating new branch", "error getting reference">>)
          /\ UNCHANGED local
       \/ /\ ~ctxDone(c)
          /\ Logged(c, Entry("GetRef", name, refs[name], TRUE))
          /\ local' = [local EXCEPT ![c].baseCommitSHA = refs[name]]
          /\ pc' = [pc EXCEPT ![c] = "CreateRef"]
          /\ UNCHANGED ret
    /\ UNCHANGED <<now, quota, inputs, bot, search, options, pushes, cancelled, hostVars, kind, params, slug>>

\* Mutant: the new branch is main itself.
newBranchRefNameMutant(t) == HeadsRef("main")

\* The ref newBranchRef asks the host to create at second t.
newBranchRefName(t) == HeadsRef(newBranch(t))

\* Mutant: the error of CreateRef is ignored.
CreateRefFailedMutant(err) == FALSE

\* if err != nil after a.Git.CreateRef
CreateRefFailed(err) == err # NoErr

\* newBranchRef, second half: the branch is named after the clock and
\* created at the SHA read from main.
CreateRef(c) ==
    LET name == newBranchRefName(now)
        sha == local[c].baseCommitSHA
    IN
    /\ pc[c] = "CreateRef"
    /\ \E err \in {NoErr, <<"422 Reference already exists">>} :
        /\ err = NoErr => (~ctxDone(c) /\ HostAcceptsCreateRef(name, sha))
        /\ refs' = IF err = NoErr THEN [refs EXCEPT ![name] = sha] ELSE refs
        /\ Logged(c, Entry("CreateRef", name, sha, err = NoErr))
        /\ IF CreateRefFailed(err)
           THEN /\ Fail(c, <<"error creating new branch", "error creating reference">>)
                /\ UNCHANGED local
           ELSE /\ local' = [local EXCEPT ![c].prBranchRef = [Ref |-> name, SHA |-> sha]]
                /\ pc' = [pc EXCEPT ![c] = "Build"]
                /\ UNCHANGED ret
    /\ UNCHANGED <<now, quota, inputs, bot, search, options, pushes, cancelled, commits, prs, kind, params, slug>>

\* CreateArticleCommit, step 1: GetRef of main; a failure panics.
CommitGetRef(c) ==
    LET name == HeadsRef("main") IN
    /\ pc[c] = "CommitGetRef"
    /\ \/ /\ Logged(c, Entry("GetRef", name, 0, FALSE))
          /\ pc' = [pc EXCEPT ![c] = "panic"]
          /\ UNCHANGED local
       \/ /\ ~ctxDone(c)
          /\ Logged(c, Entry("GetRef", name, refs[name], TRUE))
          /\ local' = [local EXCEPT ![c].ref = [Ref |-> name, SHA |-> refs[name]]]
          /\ pc' = [pc EXCEPT ![c] = "Build"]
    /\ UNCHANGED <<now, quota, inputs, bot, search, options, pushes, cancelled, hostVars, kind, params, slug, ret>>


\* ----------------------------------------------------------------- build
\* The formatter calls of a build, as log entries.
FormatEntries(files, bad) ==
    [j \in DOMAIN files |-> Entry("Format", files[j], 0, files[j] \notin bad)]

\* Mutant: the error of the build is dropped.
BuildFailedMutant(r) == FALSE

\* if err != nil after treeEntriesFromParams
BuildFailed(r) == r.err # NoErr

\* treeEntriesFromParams (article, commit) or the inline builder (place);
\* the formatter fails on at most one of the files it is given.
Build(c) ==
    /\ pc[c] = "Build"
    /\ \E bad \in {{}} \cup {{f} : f \in FilesOf(kind[c], slug[c], params[c])} :
        LET r == IF kind[c] = "place"
                 THEN placeTreeEntries(slug[c], params[c], bad)
                 ELSE treeEntriesFromParams(articlePath(slug[c], params[c]), params[c], bad)
        IN  /\ log' = [log EXCEPT ![c] = @ \o FormatEntries(r.formatted, bad)]
            /\ IF BuildFailed(r)
               THEN /\ Fail(c, IF kind[c] = "place" THEN r.err
                               ELSE Wrap("error creating tree entries", r.err))
                    /\ UNCHANGED local
               ELSE /\ local' = [local EXCEPT ![c].treeEntries = r.entries]
                    /\ pc' = [pc EXCEPT ![c] = "CreateTree"]
                    /\ UNCHANGED ret
    /\ UNCHANGED <<now, quota, inputs, bot, search, options, pushes, cancelled, hostVars, kind, params, slug>>

\* ----------------------------------------------------------- commit path
\* baseSHA := prBranchRef.GetObject().GetSHA() (ref.GetObject().GetSHA() in
\* CreateArticleCommit)
BaseSHAOf(c) == IF kind[c] = "commit" THEN local[c].ref.SHA ELSE local[c].prBranchRef.SHA

\* tree, _, err := a.Git.CreateTree(ctx, a.Owner, a.Repo, baseSHA, treeEntries)
CreateTree(c) ==
    LET baseSHA == BaseSHAOf(c) IN
    /\ pc[c] = "CreateTree"
    /\ \/ /\ Logged(c, Entry("CreateTree", "", baseSHA, FALSE))
          /\ Fail(c, <<"error creating tree">>)
          /\ UNCHANGED local
       \/ /\ ~ctxDone(c)
          /\ Logged(c, Entry("CreateTree", "", baseSHA, TRUE))
          /\ local' = [local EXCEPT ![c].baseSHA = baseSHA,
                                    ![c].tree = [base |-> baseSHA,
                                                 entries |-> local[c].treeEntries]]
          /\ pc' = [pc EXCEPT ![c] = "GetCommit"]
          /\ UNCHANGED ret
    /\ UNCHANGED <<now, quota, inputs, bot, search, options, pushes, cancelled, hostVars, kind, params, slug>>

\* parentCommit, _, err := a.Git.GetCommit(ctx, a.Owner, a.Repo, baseSHA)
GetCommit(c) ==
    /\ pc[c] = "GetCommit"
    /\ \/ /\ Logged(c, Entry("GetCommit", "", local[c].baseSHA, FALSE))
          /\ Fail(c, <<"error getting commit">>)
          /\ UNCHANGED local
       \/ /\ ~ctxDone(c)
          /\ local[c].baseSHA \in DOMAIN commits
          /\ Logged(c, Entry("GetCommit", "", local[c].baseSHA, TRUE))
          /\ local' = [local EXCEPT ![c].parentCommit = local[c].baseSHA]
          /\ pc' = [pc EXCEPT ![c] = "CreateCommit"]
          /\ UNCHANGED ret
    /\ UNCHANGED <<now, quota, inputs, bot, search, options, pushes, cancelled, hostVars, kind, params, slug>>

\* Message: params.PRTitle in the pull-request flows, params.CommitMessage in
\* CreateArticleCommit.
MessageOf(c) == IF kind[c] = "commit" THEN params[c].CommitMessage ELSE params[c].PRTitle

\* Mutant: the commit is created without a parent.
ParentsMutant(c) == <<>>

\* Parents: []*gh.Commit{parentCommit}
Parents(c) == <<local[c].parentCommit>>

\* commit, _, err := a.Git.CreateCommit(..., &gh.Commit{Message, Tree, Parents})
\* CreateArticleCommit returns the new SHA here.
CreateCommit(c) ==
    LET sha == Len(commits) + 1 IN
    /\ pc[c] = "CreateCommit"
    /\ \/ /\ Logged(c, Entry("CreateCommit", "", 0, FALSE))
          /\ Fail(c, <<"error creating commit">>)
          /\ UNCHANGED <<local, commits>>
       \/ /\ ~ctxDone(c)
          /\ Logged(c, Entry("CreateCommit", "", sha, TRUE))
          /\ commits' = Append(commits, [parents |-> Parents(c),
                                         tree |-> local[c].tree,
                                         message |-> MessageOf(c)])
          /\ local' = [local EXCEPT ![c].commit = sha]
          /\ IF kind[c] = "commit"
             THEN /\ pc' = [pc EXCEPT ![c] = "done"]
                  /\ ret' = [ret EXCEPT ![c] = [NoRet EXCEPT !.sha = sha]]
             ELSE /\ pc' = [pc EXCEPT ![c] = "UpdateRef"]
                  /\ UNCHANGED ret
    /\ UNCHANGED <<now, quota, inputs, bot, search, options, pushes, cancelled, refs, prs, kind, params, slug>>

\* Mutant: the update is forced.
UpdateRefForceMutant == TRUE

\* The force argument of a.Git.UpdateRef(ctx, a.Owner, a.Repo, prBranchRef, false).
UpdateRefForce == FALSE

\* Mutant: the success return drops the pull request.
ReturnedMutant(pr) == NoRet

\* return activePR.GetNumber(), activePR.GetHTMLURL(), nil
Returned(pr) == [NoRet EXCEPT !.num = pr.Number, !.url = pr.HTMLURL]

\* Mutant: the error of UpdateRef is ignored.
UpdateRefFailedNever(err) == FALSE

\* Mutant: the error test after UpdateRef is inverted.
UpdateRefFailedMutant(err) == err = NoErr

\* if err != nil after a.Git.UpdateRef
UpdateRefFailed(err) == err # NoErr

\* Mutant: the pull request is created whether one is reused or not.
ReusesPRMutant(c) == FALSE

\* if activePR == nil { create the pull request } else: the call reuses one.
ReusesPR(c) == local[c].activePR # NoPR

\* prBranchRef.Object.SHA = commit.SHA, then UpdateRef without force; a call
\* that reuses an open pull request returns here.
UpdateRef(c) ==
    LET name == local[c].prBranchRef.Ref
        sha == local[c].commit
        e == [Entry("UpdateRef", name, sha, TRUE) EXCEPT !.force = UpdateRefForce]
    IN
    /\ pc[c] = "UpdateRef"
    /\ local' = [local EXCEPT ![c].prBranchRef.SHA = sha]
    /\ \E err \in {NoErr, <<"422 Update is not a fast forward">>} :
        /\ err = NoErr => (~ctxDone(c) /\ HostAcceptsUpdate(name, sha, UpdateRefForce))
        /\ refs' = IF err = NoErr THEN [refs EXCEPT ![name] = sha] ELSE refs
        /\ Logged(c, IF err = NoErr THEN e ELSE [e EXCEPT !.ok = FALSE, !.err = "error"])
        /\ IF UpdateRefFailed(err)
           THEN Fail(c, <<"error updating reference">>)
           ELSE IF ReusesPR(c)
                THEN /\ pc' = [pc EXCEPT ![c] = "done"]
                     /\ ret' = [ret EXCEPT ![c] = Returned(local[c].activePR)]
                ELSE /\ pc' = [pc EXCEPT ![c] = "CreatePR"]
                     /\ UNCHANGED ret
    /\ UNCHANGED <<now, quota, inputs, bot, search, options, pushes, cancelled, commits, prs, kind, params, slug>>

\* ------------------------------------------------------- pull-request path
\* err.Code == "custom" && err.Message == "No commits between main and "+*newPR.Head
\* for some entry of githubError.Errors
HasRaceSignature(e, head) ==
    \E j \in DOMAIN e.Errors :
        /\ e.Errors[j].Code = "custom"
        /\ e.Errors[j].Message = "No commits between main and " \o head

\* Mutant: a raced attempt is retried without the sleep.
OnCreateErrorMutant(e, head) == IF e.IsErrorResponse THEN "next" ELSE "return"

\* What createPRWithRetry does with a failed attempt: sleep and go on, go on
\* at once, or return the error.
OnCreateError(e, head) ==
    IF e.IsErrorResponse
    THEN IF HasRaceSignature(e, head) THEN "sleep" ELSE "next"
    ELSE "return"

\* Mutant: the delay is not capped.
retryDelayMutant(i) == baseDelay * 2^i

\* delay := math.Min(baseDelay*math.Pow(2, float64(i)), maxDelay)
retryDelay(i) == Min(baseDelay * 2^i, maxDelay)

\* fmt.Errorf("unable to create PR after %d attempts", maxRetries)
ExhaustedErr == <<"unable to create PR after " \o ToString(maxRetries) \o " attempts">>

\* Mutant: the loop has no bound.
LoopContinuesMutant(i) == TRUE

\* for i := 0; i < maxRetries; i++
LoopContinues(i) == i < maxRetries

\* i++ and the loop test of createPRWithRetry; leaving the loop returns the
\* attempts-exhausted error, which the caller wraps.
NextAttempt(c) ==
    IF LoopContinues(local[c].i + 1)
    THEN /\ local' = [local EXCEPT ![c].i = @ + 1]
         /\ pc' = [pc EXCEPT ![c] = "CreatePR"]
         /\ UNCHANGED ret
    ELSE /\ local' = [local EXCEPT ![c].i = @ + 1, ![c].retryErr = ExhaustedErr]
         /\ Fail(c, Wrap("error creating PR", ExhaustedErr))

\* The pull request the host creates for newPR.
NewPull(head, base) ==
    [Number |-> Len(prs) + 1, HTMLURL |-> HTMLURL(Len(prs) + 1), State |-> "open",
     Head |-> BranchOfHead(head), Base |-> base, Reviewers |-> {}]

\* Mutant: head and base are swapped.
newPRMutant(c) ==
    [Title |-> params[c].PRTitle, Head |-> "main", Base |-> local[c].prBranchRef.Ref,
     Body |-> params[c].PRBody]

\* newPR := &gh.NewPullRequest{Title, Head: prBranchRef.GetRef(), Base: "main", Body}
newPR(c) ==
    [Title |-> params[c].PRTitle, Head |-> local[c].prBranchRef.Ref, Base |-> "main",
     Body |-> params[c].PRBody]

\* How the host names the failure it answered a create-pull-request with.
ErrKind(e, head) ==
    IF ~e.IsErrorResponse THEN "error"
    ELSE IF RaceEntry(head) \in {e.Errors[j] : j \in DOMAIN e.Errors} THEN "race"
    ELSE "response"

\* Mutant: the loop goes on after a pull request was created.
OnCreatedMutant(c) == "CreatePR"

\* return pr, nil: the article flow goes on to request reviewers, the place
\* flow returns.
OnCreated(c) == IF kind[c] = "article" THEN "RequestReviewers" ELSE "done"

\* One iteration of createPRWithRetry up to its sleep:
\* pr, _, err := a.PullRequests.Create(ctx, a.Owner, a.Repo, newPR)
CreatePR(c) ==
    LET head == newPR(c).Head
        pull == NewPull(head, newPR(c).Base)
    IN
    /\ pc[c] = "CreatePR"
    /\ \/ /\ ~ctxDone(c)
          /\ Logged(c, Entry("CreatePR", head, pull.Number, TRUE))
          /\ prs' = Append(prs, pull)
          /\ local' = [local EXCEPT ![c].activePR = pull]
          /\ pc' = [pc EXCEPT ![c] = OnCreated(c)]
          /\ ret' = IF OnCreated(c) = "done" THEN [ret EXCEPT ![c] = Returned(pull)] ELSE ret
          /\ UNCHANGED quota
       \/ /\ \E e \in CreateErrors(head) :
                /\ ctxDone(c) => ~e.IsErrorResponse
                /\ CASE ErrKind(e, head) = "race" ->
                            quota.race > 0 /\ quota' = [quota EXCEPT !.race = @ - 1]
                     [] ErrKind(e, head) = "response" ->
                            quota.other > 0 /\ quota' = [quota EXCEPT !.other = @ - 1]
                     [] OTHER -> UNCHANGED quota
                /\ Logged(c, [Entry("CreatePR", head, 0, FALSE) EXCEPT
                                 !.err = ErrKind(e, head)])
                /\ CASE OnCreateError(e, head) = "sleep" ->
                            /\ pc' = [pc EXCEPT ![c] = "Sleep"]
                            /\ UNCHANGED <<local, ret>>
                     [] OnCreateError(e, head) = "next" -> NextAttempt(c)
                     [] OTHER ->
                            /\ local' = [local EXCEPT ![c].retryErr = <<"network error">>]
                            /\ Fail(c, <<"error creating PR", "network error">>)
          /\ UNCHANGED prs
    /\ UNCHANGED <<now, inputs, bot, search, options, pushes, cancelled, refs, commits, kind, params, slug>>

\* time.Sleep(time.Duration(delay) * time.Second), then the next iteration.
Sleep(c) ==
    /\ pc[c] = "Sleep"
    /\ Logged(c, Entry("Sleep", "", retryDelay(local[c].i), TRUE))
    /\ now' = Min(now + retryDelay(local[c].i), MaxTime)
    /\ NextAttempt(c)
    /\ UNCHANGED <<quota, inputs, bot, search, options, pushes, cancelled, hostVars, kind, params, slug>>

\* Mutant: the error is returned along with the created pull request.
ReviewersErrorMutant(pr) == [Returned(pr) EXCEPT !.err = <<"error requesting reviewers">>]

\* return 0, "", fmt.Errorf("error requesting reviewers: %v", err)
ReviewersError(pr) == [NoRet EXCEPT !.err = <<"error requesting reviewers">>]

\* a.PullRequests.RequestReviewers(..., activePR.GetNumber(), {"chrisdinn"})
\* (CreateOrUpdateArticlePullRequest only), then the return.
RequestReviewers(c) ==
    LET n == local[c].activePR.Number IN
    /\ pc[c] = "RequestReviewers"
    /\ \/ /\ Logged(c, Entry("RequestReviewers", "", n, FALSE))
          /\ pc' = [pc EXCEPT ![c] = "done"]
          /\ ret' = [ret EXCEPT ![c] = ReviewersError(local[c].activePR)]
          /\ UNCHANGED prs
       \/ /\ ~ctxDone(c)
          /\ Logged(c, Entry("RequestReviewers", "", n, TRUE))
          /\ prs' = [prs EXCEPT ![n].Reviewers = @ \cup {"chrisdinn"}]
          /\ pc' = [pc EXCEPT ![c] = "done"]
          /\ ret' = [ret EXCEPT ![c] = Returned(local[c].activePR)]
    /\ UNCHANGED <<now, quota, inputs, bot, search, options, pushes, cancelled, refs, commits, kind, params, slug, local>>

\* -------------------------------------------------------- the environment
\* A second passes.
Tick ==
    /\ now < MaxTime
    /\ now' = now + 1
    /\ UNCHANGED <<quota, inputs, bot, search, options, pushes, cancelled, hostVars, kind, pc, params, slug, local, ret, log>>

\* Another actor closes or merges an open pull request.
ClosePR ==
    /\ \E n \in DOMAIN prs :
        /\ prs[n].State = "open"
        /\ prs' = [prs EXCEPT ![n].State = "closed"]
    /\ UNCHANGED <<now, quota, inputs, bot, search, options, pushes, cancelled, refs, commits, kind, pc, params, slug, local, ret, log>>

\* ------------------------------------------------------------- the fetches
\* FetchArticle and FetchPlace, as kinds of call.
FetchKinds == {"fetchArticle", "fetchPlace"}

\* A caller starts a fetch.
FetchStart(c) ==
    /\ pc[c] = "idle"
    /\ c = "c2" => pc["c1"] # "idle"
    /\ \E k \in FetchKinds, s \in Slugs :
        /\ kind' = [kind EXCEPT ![c] = k]
        /\ slug' = [slug EXCEPT ![c] = s]
        /\ pc' = [pc EXCEPT ![c] = "FetchGetRef"]
    /\ UNCHANGED <<now, quota, inputs, bot, search, options, pushes, cancelled, hostVars, params, local,
                   ret, log>>

\* ref, _, err := a.Git.GetRef(ctx, a.Owner, a.Repo, "refs/heads/main");
\* branchCommitSHA := *ref.Object.SHA
FetchGetRef(c) ==
    LET name == HeadsRef("main") IN
    /\ pc[c] = "FetchGetRef"
    /\ \/ /\ Logged(c, Entry("GetRef", name, 0, FALSE))
          /\ Fail(c, <<"error getting reference">>)
          /\ UNCHANGED local
       \/ /\ Logged(c, Entry("GetRef", name, refs[name], TRUE))
          /\ local' = [local EXCEPT ![c].ref = [Ref |-> name, SHA |-> refs[name]]]
          /\ pc' = [pc EXCEPT ![c] = IF kind[c] = "fetchArticle" THEN "article.json"
                                     ELSE "poi.json"]
          /\ UNCHANGED ret
    /\ UNCHANGED <<now, quota, inputs, bot, search, options, pushes, cancelled, hostVars, kind, params,
                   slug>>

\* The article.json the repository holds at commit sha: the first commit
\* lists a locations dataset, a later push drops it.
ArticleAt(sha) ==
    IF sha = 1 THEN LocationsArticle ELSE [present |-> TRUE, GeoJSONDatasets |-> <<>>]

\* The directory a fetch reads from.
FetchDir(c) ==
    (IF kind[c] = "fetchArticle" THEN "articles/" ELSE "active_places/") \o slug[c]

\* The commit at which call c read its article.json.
ArticleReadAt(c) ==
    LET reads == {k \in Issued(c, "GetContents") :
                    log[c][k].ok /\ log[c][k].ref = FetchDir(c) \o "/article.json"}
    IN  IF reads = {} THEN 0 ELSE log[c][CHOOSE k \in reads : TRUE].n

\* The file a fetch reads after `file`, "done" after the last: locations.geojson
\* is read when the article.json that was read lists a locations dataset.
FileAfter(c, file) ==
    CASE file = "article.json" -> "article.html"
      [] file = "article.html" -> "article.js"
      [] file = "article.js" ->
            IF \E j \in DOMAIN ArticleAt(ArticleReadAt(c)).GeoJSONDatasets :
                   ArticleAt(ArticleReadAt(c)).GeoJSONDatasets[j] = "locations"
            THEN "locations.geojson" ELSE "done"
      [] file = "poi.json" -> "body.html"
      [] OTHER -> "done"

\* The files of the two fetches.
FetchFiles == {"article.json", "article.html", "article.js", "locations.geojson",
               "poi.json", "body.html"}

\* Mutant: the file is read at the head of main.
ContentsRefMutant(c) == refs[HeadsRef("main")]

\* &gh.RepositoryContentGetOptions{Ref: branchCommitSHA}
ContentsRef(c) == local[c].ref.SHA

\* a.Repositories.GetContents(ctx, ..., path, {Ref: branchCommitSHA}), then
\* GetContent and the decoding of what was read; any failure returns.
FetchFile(c) ==
    LET path == FetchDir(c) \o "/" \o pc[c] IN
    /\ pc[c] \in FetchFiles
    /\ \/ /\ Logged(c, Entry("GetContents", path, ContentsRef(c), FALSE))
          /\ Fail(c, <<"error getting file content">>)
       \/ /\ Logged(c, Entry("GetContents", path, ContentsRef(c), TRUE))
          /\ \/ \E err \in {<<"error decoding file content">>, <<"error unmarshaling">>} :
                    Fail(c, err)
             \/ /\ pc' = [pc EXCEPT ![c] = FileAfter(c, pc[c])]
                /\ UNCHANGED ret
    /\ UNCHANGED <<now, quota, inputs, bot, search, options, pushes, cancelled, hostVars, kind, params,
                   slug, local>>

\* ------------------------------------------------------- the search indexer
\* The runs of Generate over the same articles: a first and a second.
Runs == {1, 2}

\* The articles by what Generate and fetchEmbeddings tell apart: IsLive,
\* PubDate, and whether article.Path() yields a path ("" when it fails).
ArticleShapes ==
    {[Name |-> "name", Slug |-> "slug", PubDate |-> d, IsLive |-> l, path |-> q] :
        d \in {"", "2023-01-01"}, l \in BOOLEAN, q \in {"", "/articles/slug"}}

\* The metadata Generate stores with the vector of article a.
MetadataOf(a) ==
    [article_name |-> a.Name, path |-> a.path, pub_date |-> a.PubDate, slug |-> a.Slug]

\* resp.Vectors[id] does not exist.
NoVector == [exists |-> FALSE, Values |-> "nil", Metadata |-> MetadataOf([Name |-> "",
             Slug |-> "", PubDate |-> "", IsLive |-> FALSE, path |-> ""])]

\* What the index may hold for article a before the first run: nothing, the
\* vector of a, or a vector stored for an earlier publication date of a.
StoredFor(a) ==
    {NoVector,
     [exists |-> TRUE, Values |-> "embedding", Metadata |-> MetadataOf(a)],
     [exists |-> TRUE, Values |-> "embedding",
      Metadata |-> [MetadataOf(a) EXCEPT !.pub_date = "2022-01-01"]]}

\* fetchEmbeddings(pineconeClient, id, article): the embeddings, the metadata
\* and the error, for the stored vector v; `failed` when FetchVectors fails.
fetchEmbeddings(v, article, failed) ==
    LET none == [embeddings |-> "nil", metadata |-> "nil", err |-> NoErr]
        error == [embeddings |-> "nil", metadata |-> "nil", err |-> <<"fetch">>]
    IN  IF failed THEN error
        ELSE IF ~v.exists THEN none
        ELSE IF v.Metadata.article_name # article.Name THEN error
        ELSE IF v.Metadata.path = "" THEN error
        ELSE IF v.Metadata.pub_date # article.PubDate THEN error
        ELSE IF article.path = "" THEN error
        ELSE IF v.Metadata.path # article.path THEN error
        ELSE IF v.Metadata.slug # article.Slug THEN error
        ELSE [embeddings |-> v.Values, metadata |-> "metadata", err |-> NoErr]

\* Mutant: the stored vector is never taken as present.
AlreadyIndexedMutant(r) == FALSE

\* err == nil && existingEmbedding != nil && metadata != nil
AlreadyIndexed(r) == r.err = NoErr /\ r.embeddings # "nil" /\ r.metadata # "nil"

\* A request or step of Generate for article id in the current run; `stored`
\* tells whether the index held the vector of the article with its metadata
\* when the iteration began.
Request(op, id, ok, stored) ==
    [op |-> op, id |-> id, run |-> search.run, ok |-> ok, stored |-> stored]

\* The steps of one iteration that found no usable vector, up to the first
\* that fails: LoadBodyText, Path, the template, getEmbeddings,
\* storeEmbeddings.
Reindex(id, a, fail, stored) ==
    LET steps == <<"LoadBodyText", "Path", "Execute", "Embed", "Upsert">>
        fails(k) == steps[k] = fail \/ (steps[k] = "Path" /\ a.path = "")
        last == IF \E k \in DOMAIN steps : fails(k)
                THEN CHOOSE k \in DOMAIN steps : fails(k) /\ \A j \in 1..(k - 1) : ~fails(j)
                ELSE Len(steps)
    IN  [k \in 1..last |-> Request(steps[k], id, ~fails(k), stored)]

\* What may fail in an iteration.
Failures == {"none", "Fetch", "LoadBodyText", "Execute", "Embed", "Upsert"}

\* Generate(articles) is called: the first run, or the next over the same
\* articles.
GenerateStart ==
    /\ search.pos = 0
    /\ search.run + 1 \in Runs
    /\ search' = [search EXCEPT !.run = @ + 1, !.pos = 1]
    /\ UNCHANGED <<now, quota, inputs, bot, options, pushes, cancelled, hostVars, kind, pc,
                   params, slug, local, ret, log>>

\* One iteration of `for _, article := range articles`.
GenerateArticle ==
    /\ search.pos \in DOMAIN search.articles
    /\ LET id == search.pos
           a == search.articles[id]
           v == search.index[id]
           stored == v.exists /\ v.Values # "nil" /\ v.Metadata = MetadataOf(a)
       IN  IF a.PubDate = "" \/ ~a.IsLive
           THEN search' = [search EXCEPT !.pos = @ + 1]
           ELSE \E fail \in Failures :
                LET r == fetchEmbeddings(v, a, fail = "Fetch")
                    fetch == <<Request("Fetch", id, r.err = NoErr, stored)>>
                    steps == IF AlreadyIndexed(r) THEN <<>> ELSE Reindex(id, a, fail, stored)
                    all == fetch \o steps
                IN  /\ fail # "none" => search.failures < MaxSearchFailures
                    /\ fail # "none" => \E k \in DOMAIN all : all[k].op = fail /\ ~all[k].ok
                    /\ search' =
                         [search EXCEPT
                            !.pos = @ + 1,
                            !.failures = IF fail = "none" THEN @ ELSE @ + 1,
                            !.out = @ \o all,
                            !.index = IF \E k \in DOMAIN steps :
                                             steps[k].op = "Upsert" /\ steps[k].ok
                                      THEN [@ EXCEPT ![id] =
                                              [exists |-> TRUE, Values |-> "embedding",
                                               Metadata |-> MetadataOf(a)]]
                                      ELSE @]
    /\ UNCHANGED <<now, quota, inputs, bot, options, pushes, cancelled, hostVars, kind, pc,
                   params, slug, local, ret, log>>

\* return nil after the last article.
GenerateReturn ==
    /\ search.run > 0
    /\ search.pos = Len(search.articles) + 1
    /\ search' = [search EXCEPT !.pos = 0]
    /\ UNCHANGED <<now, quota, inputs, bot, options, pushes, cancelled, hostVars, kind, pc,
                   params, slug, local, ret, log>>

\* ------------------------------------------------------------ the chat bot
\* The events of Socket.Events by what Run tells apart: evt.Type, whether
\* evt.Data has the type Run asserts, the inner event or callback type, and
\* the number of block actions or view inputs.
EventShapes ==
    {[id |-> 0, type |-> "events_api", ok |-> FALSE, inner |-> "", n |-> 0],
     [id |-> 0, type |-> "slash_commands", ok |-> FALSE, inner |-> "", n |-> 0],
     [id |-> 0, type |-> "slash_commands", ok |-> TRUE, inner |-> "slash_commands", n |-> 0],
     [id |-> 0, type |-> "interactive", ok |-> FALSE, inner |-> "", n |-> 0],
     [id |-> 0, type |-> "hello", ok |-> TRUE, inner |-> "", n |-> 0]}
    \cup {[id |-> 0, type |-> "events_api", ok |-> TRUE, inner |-> in, n |-> 0] :
             in \in {"app_mention", "message", "other"}}
    \cup {[id |-> 0, type |-> "interactive", ok |-> TRUE, inner |-> in, n |-> k] :
             in \in {"block_actions", "view_submission"}, k \in 0..MaxActions}
    \cup {[id |-> 0, type |-> "interactive", ok |-> TRUE, inner |-> "other", n |-> 0]}

\* What Run sends or calls for event id: an acknowledgement (Socket.Ack), a
\* threaded reply (b.Reply), the invocation of a handler and its return.
Out(op, id, i, payload) == [op |-> op, id |-> id, i |-> i, payload |-> payload]

\* The chat platform delivers an event.
BotArrive ==
    /\ bot.arrived < MaxEvents
    /\ \E e \in EventShapes :
        bot' = [bot EXCEPT !.arrived = @ + 1,
                           !.queue = Append(@, [e EXCEPT !.id = bot.arrived + 1])]
    /\ UNCHANGED <<now, quota, inputs, search, options, pushes, cancelled, hostVars, kind, pc, params,
                   slug, local, ret, log>>

\* handler, ok := b.Handler.(Slack...Handler) for the event e
Installed(e) == e.inner \in bot.handlers

\* The handler of e is invoked at least once: block actions and view inputs
\* have one invocation each.
Invokes(e) ==
    /\ e.ok /\ Installed(e)
    /\ e.inner \in {"block_actions", "view_submission"} => e.n > 0

\* What Run sends for e before any handler runs: the acknowledgement of an
\* events-API or interactive event whose data is well typed, and of a slash
\* command whose data is not.
AckFirst(e) ==
    CASE e.type \in {"events_api", "interactive"} ->
            IF e.ok THEN <<Out("Ack", e.id, 0, "")>> ELSE <<>>
      [] e.type = "slash_commands" ->
            IF e.ok THEN <<>> ELSE <<Out("Ack", e.id, 0, "")>>
      [] OTHER -> <<>>

\* Mutant: every event is taken on a thread of its own.
AtLoopHeadMutant == TRUE

\* Run is one loop on one thread: it takes an event from Socket.Events only
\* when the body of the previous iteration has returned.
AtLoopHead == bot.pc = "range"

\* for evt := range b.Socket.Events: the next event, up to the first handler
\* invocation or, without one, to the end of the loop body.
BotRange ==
    /\ AtLoopHead
    /\ bot.queue # <<>>
    /\ LET e == Head(bot.queue) IN
        bot' = [bot EXCEPT !.queue = Tail(@),
                           !.evt = e,
                           !.i = 1,
                           !.out = @ \o AckFirst(e),
                           !.pc = IF Invokes(e) THEN "invoke" ELSE "range"]
    /\ UNCHANGED <<now, quota, inputs, search, options, pushes, cancelled, hostVars, kind, pc, params,
                   slug, local, ret, log>>

\* handler.Handle...(ctx, ...): the call is made.
BotInvoke ==
    /\ bot.pc = "invoke"
    /\ bot' = [bot EXCEPT !.pc = "running",
                          !.out = Append(@, Out("Invoke", bot.evt.id, bot.i, ""))]
    /\ UNCHANGED <<now, quota, inputs, search, options, pushes, cancelled, hostVars, kind, pc, params,
                   slug, local, ret, log>>

\* errorBlock(fmt.Sprintf(":warning: Error! ...")) as the payload sent
ErrorBlock == "error"

\* What Run sends after the handler of e returned err (or nil): the threaded
\* reply with the error block, and for a slash command the acknowledgements.
AfterHandler(e, i, failed) ==
    IF e.type = "slash_commands"
    THEN (IF failed THEN <<Out("Ack", e.id, i, ErrorBlock)>> ELSE <<>>)
         \o <<Out("Ack", e.id, i, "blocks")>>
    ELSE IF failed THEN <<Out("Reply", e.id, i, ErrorBlock)>> ELSE <<>>

\* The handler returns; Run answers and goes on with the next action of the
\* event or with the next event.
BotReturn ==
    /\ bot.pc = "running"
    /\ \E failed \in BOOLEAN :
        bot' = [bot EXCEPT
                  !.out = Append(@, Out("Return", bot.evt.id, bot.i,
                                        IF failed THEN "error" ELSE ""))
                          \o AfterHandler(bot.evt, bot.i, failed),
                  !.i = @ + 1,
                  !.pc = IF bot.i < bot.evt.n THEN "invoke" ELSE "range"]
    /\ UNCHANGED <<now, quota, inputs, search, options, pushes, cancelled, hostVars, kind, pc, params,
                   slug, local, ret, log>>

\* The caller cancels the context of a call that is running.
Cancel(c) ==
    /\ pc[c] \notin {"idle", "done", "panic"}
    /\ ~cancelled[c]
    /\ cancelled' = [cancelled EXCEPT ![c] = TRUE]
    /\ Logged(c, Entry("Cancel", "", 0, TRUE))
    /\ UNCHANGED <<now, quota, inputs, bot, search, options, pushes, hostVars, kind, pc, params, slug, local, ret>>

\* Another actor pushes a commit to main.
PushMain ==
    /\ pushes < MaxPushes
    /\ pushes' = pushes + 1
    /\ commits' = Append(commits, [parents |-> <<refs[HeadsRef("main")]>>, tree |-> NoTree,
                                   message |-> "pushed"])
    /\ refs' = [refs EXCEPT ![HeadsRef("main")] = Len(commits) + 1]
    /\ UNCHANGED <<now, quota, inputs, bot, search, options, cancelled, prs, kind, pc, params, slug, local, ret, log>>

Next ==
    \/ \E c \in Calls : Start(c)
    \/ \E c \in Calls : GetPR(c)
    \/ \E c \in Calls : GetHeadRef(c)
    \/ \E c \in Calls : GetMainRef(c)
    \/ \E c \in Calls : CreateRef(c)
    \/ \E c \in Calls : CommitGetRef(c)
    \/ \E c \in Calls : Build(c)
    \/ \E c \in Calls : CreateTree(c)
    \/ \E c \in Calls : GetCommit(c)
    \/ \E c \in Calls : CreateCommit(c)
    \/ \E c \in Calls : UpdateRef(c)
    \/ \E c \in Calls : CreatePR(c)
    \/ \E c \in Calls : Sleep(c)
    \/ \E c \in Calls : RequestReviewers(c)
    \/ Tick
    \/ ClosePR
    \/ PushMain

Spec == Init /\ [][Next]_vars

\* Two publish calls at once on the pull-request entry points.
InitConcurrent ==
    /\ now = 0
    /\ quota = [race |-> MaxConcurrentRaces, other |-> 0]
    /\ inputs = [c \in Calls |-> ConcurrentInputs]
    /\ bot = NoBot
    /\ search = NoSearch
    /\ options = [c \in Calls |-> <<>>]
    /\ pushes = 0
    /\ cancelled = [c \in Calls |-> FALSE]
    /\ refs = [r \in RefNames |->
                 CASE r = HeadsRef("main") -> 1
                   [] r = HeadsRef("feature") -> 2
                   [] r = HeadsRef("old") -> 3
                   [] OTHER -> 0]
    /\ commits = << [parents |-> <<>>, tree |-> NoTree, message |-> "root"],
                    [parents |-> <<1>>, tree |-> NoTree, message |-> "feature"],
                    [parents |-> <<1>>, tree |-> NoTree, message |-> "old"] >>
    /\ prs = << [Number |-> 1, HTMLURL |-> HTMLURL(1), State |-> "open", Head |-> "feature",
                 Base |-> "main", Reviewers |-> {}],
                [Number |-> 2, HTMLURL |-> HTMLURL(2), State |-> "closed", Head |-> "old",
                 Base |-> "main", Reviewers |-> {}] >>
    /\ kind = [c \in Calls |-> "article"]
    /\ pc = [c \in Calls |-> "idle"]
    /\ params = [c \in Calls |-> NoParams]
    /\ slug = [c \in Calls |-> ""]
    /\ local = [c \in Calls |-> NoLocal]
    /\ ret = [c \in Calls |-> NoRet]
    /\ log = [c \in Calls |-> <<>>]

NextConcurrent ==
    \/ \E c \in Calls : Start(c)
    \/ \E c \in Calls : GetPR(c)
    \/ \E c \in Calls : GetHeadRef(c)
    \/ \E c \in Calls : GetMainRef(c)
    \/ \E c \in Calls : CreateRef(c)
    \/ \E c \in Calls : Build(c)
    \/ \E c \in Calls : CreateTree(c)
    \/ \E c \in Calls : GetCommit(c)
    \/ \E c \in Calls : CreateCommit(c)
    \/ \E c \in Calls : UpdateRef(c)
    \/ \E c \in Calls : CreatePR(c)
    \/ \E c \in Calls : Sleep(c)
    \/ \E c \in Calls : RequestReviewers(c)
    \/ Tick
    \/ ClosePR

SpecConcurrent == InitConcurrent /\ [][NextConcurrent]_vars

\* The state before any call with create-pull-request failures q, inputs in
\* and pull requests pulls on the host.
InitWith(q, in, pulls) ==
    /\ now = 0
    /\ quota = q
    /\ inputs = in
    /\ bot = NoBot
    /\ search = NoSearch
    /\ options = [c \in Calls |-> <<>>]
    /\ pushes = 0
    /\ cancelled = [c \in Calls |-> FALSE]
    /\ refs = [r \in RefNames |->
                 CASE r = HeadsRef("main") -> 1
                   [] r = HeadsRef("feature") -> 2
                   [] r = HeadsRef("old") -> 3
                   [] OTHER -> 0]
    /\ commits = << [parents |-> <<>>, tree |-> NoTree, message |-> "root"],
                    [parents |-> <<1>>, tree |-> NoTree, message |-> "feature"],
                    [parents |-> <<1>>, tree |-> NoTree, message |-> "old"] >>
    /\ prs = pulls
    /\ kind = [c \in Calls |-> "article"]
    /\ pc = [c \in Calls |-> "idle"]
    /\ params = [c \in Calls |-> NoParams]
    /\ slug = [c \in Calls |-> ""]
    /\ local = [c \in Calls |-> NoLocal]
    /\ ret = [c \in Calls |-> NoRet]
    /\ log = [c \in Calls |-> <<>>]

\* The pull requests on the host at the start: one open, one closed.
Pulls ==
    << [Number |-> 1, HTMLURL |-> HTMLURL(1), State |-> "open", Head |-> "feature",
        Base |-> "main", Reviewers |-> {}],
       [Number |-> 2, HTMLURL |-> HTMLURL(2), State |-> "closed", Head |-> "old",
        Base |-> "main", Reviewers |-> {}] >>

\* One pull-request call against a host that answers as it likes.
InitRetry ==
    InitWith([race |-> MaxRaces, other |-> MaxOtherResponses],
             [c \in Calls |-> IF c = "c1" THEN ConcurrentInputs ELSE {}], Pulls)

\* A step of a pull-request call that has started.
Step(c) ==
    \/ GetPR(c) \/ GetHeadRef(c) \/ GetMainRef(c) \/ CreateRef(c)
    \/ Build(c) \/ CreateTree(c) \/ GetCommit(c) \/ CreateCommit(c) \/ UpdateRef(c)
    \/ CreatePR(c) \/ Sleep(c) \/ RequestReviewers(c)

\* Every call runs on its own thread and every host call, formatter call and
\* sleep returns: a call that can take a step takes one.
FairSpec == InitRetry /\ [][NextConcurrent]_vars /\ \A c \in Calls : WF_vars(Step(c))

\* One pull-request call whose caller may cancel it at any point.
InitCancel ==
    /\ now = 0
    /\ quota = [race |-> MaxCancelRaces, other |-> 0]
    /\ inputs = [c \in Calls |-> IF c = "c1" THEN ConcurrentInputs ELSE {}]
    /\ bot = NoBot
    /\ search = NoSearch
    /\ options = [c \in Calls |-> <<>>]
    /\ pushes = 0
    /\ cancelled = [c \in Calls |-> FALSE]
    /\ refs = [r \in RefNames |->
                 CASE r = HeadsRef("main") -> 1
                   [] r = HeadsRef("feature") -> 2
                   [] r = HeadsRef("old") -> 3
                   [] OTHER -> 0]
    /\ commits = << [parents |-> <<>>, tree |-> NoTree, message |-> "root"],
                    [parents |-> <<1>>, tree |-> NoTree, message |-> "feature"],
                    [parents |-> <<1>>, tree |-> NoTree, message |-> "old"] >>
    /\ prs = << [Number |-> 1, HTMLURL |-> HTMLURL(1), State |-> "open", Head |-> "feature",
                 Base |-> "main", Reviewers |-> {}],
                [Number |-> 2, HTMLURL |-> HTMLURL(2), State |-> "closed", Head |-> "old",
                 Base |-> "main", Reviewers |-> {}] >>
    /\ kind = [c \in Calls |-> "article"]
    /\ pc = [c \in Calls |-> "idle"]
    /\ params = [c \in Calls |-> NoParams]
    /\ slug = [c \in Calls |-> ""]
    /\ local = [c \in Calls |-> NoLocal]
    /\ ret = [c \in Calls |-> NoRet]
    /\ log = [c \in Calls |-> <<>>]

NextCancel ==
    \/ \E c \in Calls : Start(c)
    \/ \E c \in Calls : GetPR(c)
    \/ \E c \in Calls : GetHeadRef(c)
    \/ \E c \in Calls : GetMainRef(c)
    \/ \E c \in Calls : CreateRef(c)
    \/ \E c \in Calls : Build(c)
    \/ \E c \in Calls : CreateTree(c)
    \/ \E c \in Calls : GetCommit(c)
    \/ \E c \in Calls : CreateCommit(c)
    \/ \E c \in Calls : UpdateRef(c)
    \/ \E c \in Calls : CreatePR(c)
    \/ \E c \in Calls : Sleep(c)
    \/ \E c \in Calls : RequestReviewers(c)
    \/ \E c \in Calls : Cancel(c)
    \/ Tick
    \/ ClosePR

SpecCancel == InitCancel /\ [][NextCancel]_vars

\* One commit-only call per option list: the builder on every artifact set.
InitBuild ==
    /\ now = 0
    /\ quota = [race |-> 0, other |-> 0]
    /\ inputs = [c \in Calls |-> IF c = "c1" THEN {"commit"} \X BuildOptionLists ELSE {}]
    /\ bot = NoBot
    /\ search = NoSearch
    /\ options = [c \in Calls |-> <<>>]
    /\ pushes = 0
    /\ cancelled = [c \in Calls |-> FALSE]
    /\ refs = [r \in RefNames |-> IF r = HeadsRef("main") THEN 1 ELSE 0]
    /\ commits = << [parents |-> <<>>, tree |-> NoTree, message |-> "root"] >>
    /\ prs = <<>>
    /\ kind = [c \in Calls |-> "article"]
    /\ pc = [c \in Calls |-> "idle"]
    /\ params = [c \in Calls |-> NoParams]
    /\ slug = [c \in Calls |-> ""]
    /\ local = [c \in Calls |-> NoLocal]
    /\ ret = [c \in Calls |-> NoRet]
    /\ log = [c \in Calls |-> <<>>]

NextBuild ==
    \/ \E c \in Calls : Start(c)
    \/ \E c \in Calls : CommitGetRef(c)
    \/ \E c \in Calls : Build(c)
    \/ \E c \in Calls : CreateTree(c)
    \/ \E c \in Calls : GetCommit(c)
    \/ \E c \in Calls : CreateCommit(c)

SpecBuild == InitBuild /\ [][NextBuild]_vars

\* A third pull request, open, that proposes main to a release branch: its
\* head branch is main.
HeadMainPull ==
    [Number |-> 3, HTMLURL |-> HTMLURL(3), State |-> "open", Head |-> "main",
     Base |-> "release", Reviewers |-> {}]

\* One call of any entry point against a host with that pull request.
InitHeadMain ==
    InitWith([race |-> MaxConcurrentRaces, other |-> 0],
             [c \in Calls |-> IF c = "c1"
                               THEN ConcurrentInputs \cup {<<"commit", <<WithBodyHTML>> >>}
                               ELSE {}],
             Append(Pulls, HeadMainPull))

SpecHeadMain == InitHeadMain /\ [][Next]_vars

\* Fetches while main is pushed to.
InitFetch == InitWith([race |-> 0, other |-> 0], [c \in Calls |-> {}], Pulls)

NextFetch ==
    \/ \E c \in Calls : FetchStart(c)
    \/ \E c \in Calls : FetchGetRef(c)
    \/ \E c \in Calls : FetchFile(c)
    \/ PushMain

SpecFetch == InitFetch /\ [][NextFetch]_vars

\* The indexer alone: every list of at most MaxArticles articles, over every
\* index.
InitSearch ==
    /\ now = 0
    /\ quota = [race |-> 0, other |-> 0]
    /\ inputs = [c \in Calls |-> {}]
    /\ bot = NoBot
    /\ \E n \in 1..MaxArticles : \E as \in [1..n -> ArticleShapes] :
        \E idx \in [1..n -> UNION {StoredFor(a) : a \in ArticleShapes}] :
            /\ \A k \in 1..n : idx[k] \in StoredFor(as[k])
            /\ \A k \in 1..n : (as[k].PubDate = "" \/ ~as[k].IsLive) => idx[k] = NoVector
            /\ search = [NoSearch EXCEPT !.articles = as, !.index = idx]
    /\ options = [c \in Calls |-> <<>>]
    /\ pushes = 0
    /\ cancelled = [c \in Calls |-> FALSE]
    /\ refs = [r \in RefNames |-> IF r = HeadsRef("main") THEN 1 ELSE 0]
    /\ commits = << [parents |-> <<>>, tree |-> NoTree, message |-> "root"] >>
    /\ prs = <<>>
    /\ kind = [c \in Calls |-> "article"]
    /\ pc = [c \in Calls |-> "idle"]
    /\ params = [c \in Calls |-> NoParams]
    /\ slug = [c \in Calls |-> ""]
    /\ local = [c \in Calls |-> NoLocal]
    /\ ret = [c \in Calls |-> NoRet]
    /\ log = [c \in Calls |-> <<>>]

NextSearch ==
    \/ GenerateStart
    \/ GenerateArticle
    \/ GenerateReturn

SpecSearch == InitSearch /\ [][NextSearch]_vars

\* The bot alone, with every handler installed or none.
InitSlack ==
    /\ now = 0
    /\ quota = [race |-> 0, other |-> 0]
    /\ inputs = [c \in Calls |-> {}]
    /\ bot \in {[NoBot EXCEPT !.handlers = h] : h \in {AllHandlers, {}}}
    /\ search = NoSearch
    /\ options = [c \in Calls |-> <<>>]
    /\ pushes = 0
    /\ cancelled = [c \in Calls |-> FALSE]
    /\ refs = [r \in RefNames |-> IF r = HeadsRef("main") THEN 1 ELSE 0]
    /\ commits = << [parents |-> <<>>, tree |-> NoTree, message |-> "root"] >>
    /\ prs = <<>>
    /\ kind = [c \in Calls |-> "article"]
    /\ pc = [c \in Calls |-> "idle"]
    /\ params = [c \in Calls |-> NoParams]
    /\ slug = [c \in Calls |-> ""]
    /\ local = [c \in Calls |-> NoLocal]
    /\ ret = [c \in Calls |-> NoRet]
    /\ log = [c \in Calls |-> <<>>]

NextSlack ==
    \/ BotArrive
    \/ BotRange
    \/ BotInvoke
    \/ BotReturn

SpecSlack == InitSlack /\ [][NextSlack]_vars


\* ================================================================ claims
\* The call has returned.
Done(c) == pc[c] = "done"
Succeeded(c) == Done(c) /\ ret[c].err = NoErr
Failed(c) == Done(c) /\ ret[c].err # NoErr
PullRequestCall(c) == pc[c] # "idle" /\ kind[c] \in {"article", "place"}

\* The entries of c's log with operation op that succeeded.
IssuedOk(c, op) == {k \in Issued(c, op) : log[c][k].ok}

\* The call fetched pull request PRNum and found it open / closed.
FetchedOpen(c) ==
    PullRequestCall(c) /\ local[c].pr # NoPR /\ local[c].pr.State # "closed"
FetchedClosed(c) ==
    PullRequestCall(c) /\ local[c].pr # NoPR /\ local[c].pr.State = "closed"

\* C1: a successful call with PRNum # 0 whose fetched pull request is not
\* closed issues no create-ref and no create-pull-request call, updates
\* exactly the ref refs/heads/<head of that pull request> to the commit it
\* created, and returns the number and URL of the pull request as fetched.
C1_ReuseOpenPR ==
    \A c \in Calls :
        (FetchedOpen(c) /\ Succeeded(c)) =>
            /\ params[c].PRNum # 0
            /\ Issued(c, "CreateRef") = {}
            /\ Issued(c, "CreatePR") = {}
            /\ Cardinality(Issued(c, "UpdateRef")) = 1
            /\ Cardinality(IssuedOk(c, "CreateCommit")) = 1
            /\ \A k \in Issued(c, "UpdateRef") :
                /\ log[c][k].ok
                /\ log[c][k].ref = HeadsRef(local[c].pr.Head)
                /\ \E j \in IssuedOk(c, "CreateCommit") :
                       j < k /\ log[c][j].n = log[c][k].n
            /\ ret[c].num = local[c].pr.Number
            /\ ret[c].url = local[c].pr.HTMLURL
            /\ ret[c].num = params[c].PRNum

C1_Witness ==
    \E c \in Calls :
        /\ FetchedOpen(c) /\ Succeeded(c)
        /\ ret[c].num = 1 /\ refs[HeadsRef("feature")] = local[c].commit

\* C3: a call whose fetched pull request is closed never issues a get-ref or
\* update-ref call on that pull request's head branch and never returns its
\* number; when it succeeds it has created a new branch from main (create-ref
\* at the SHA it read from main) and a new pull request.
C3_ClosedPRNeverReused ==
    \A c \in Calls :
        FetchedClosed(c) =>
            /\ \A k \in Issued(c, "GetRef") \cup Issued(c, "UpdateRef") :
                   log[c][k].ref # HeadsRef(local[c].pr.Head)
            /\ ret[c].num # local[c].pr.Number
            /\ Succeeded(c) =>
                /\ Cardinality(IssuedOk(c, "CreateRef")) = 1
                /\ Cardinality(IssuedOk(c, "CreatePR")) = 1
                /\ \A k \in IssuedOk(c, "CreateRef") :
                       \E j \in IssuedOk(c, "GetRef") :
                           /\ j < k
                           /\ log[c][j].ref = HeadsRef("main")
                           /\ log[c][j].n = log[c][k].n
                /\ \A k \in IssuedOk(c, "CreatePR") :
                       /\ ret[c].num = log[c][k].n
                       /\ prs[log[c][k].n].Head # local[c].pr.Head

C3_Witness ==
    \E c \in Calls :
        /\ FetchedClosed(c) /\ Succeeded(c)
        /\ params[c].PRNum = 2 /\ ret[c].num = 3

\* C4: a publish call whose change set is empty is rejected with a failure
\* before any host call is issued.
C4_EmptyChangeSetRejected ==
    \A c \in Calls :
        (pc[c] # "idle" /\ EmptyChangeSet(params[c])) =>
            /\ \A k \in DOMAIN log[c] : log[c][k].op \notin HostOps
            /\ pc[c] \in {"done", "panic"} => Failed(c)


\* A successful pull-request call that was given no pull request and a
\* change set that is not empty.
NewBranchSuccess(c) ==
    /\ PullRequestCall(c) /\ Succeeded(c)
    /\ params[c].PRNum = 0
    /\ ~EmptyChangeSet(params[c])

\* What C2 says of one such call but for the uniqueness of the name: one
\* create-ref of refs/heads/scottie-<timestamp> at the SHA read from main in
\* this call, one update-ref of that ref to the commit the call created, one
\* pull request created with that branch as head and main as base.
NewBranchAndPR(c) ==
    /\ Cardinality(Issued(c, "CreateRef")) = 1
    /\ Cardinality(Issued(c, "UpdateRef")) = 1
    /\ Cardinality(IssuedOk(c, "CreatePR")) = 1
    /\ \A k \in Issued(c, "CreateRef") :
        /\ log[c][k].ok
        /\ \E t \in 0..MaxTime : log[c][k].ref = HeadsRef("scottie-" \o ToString(t))
        /\ \E j \in IssuedOk(c, "GetRef") :
            j < k /\ log[c][j].ref = HeadsRef("main") /\ log[c][j].n = log[c][k].n
        /\ \A u \in Issued(c, "UpdateRef") :
            /\ k < u /\ log[c][u].ok
            /\ log[c][u].ref = log[c][k].ref
            /\ log[c][u].n = local[c].commit
            /\ commits[local[c].commit].parents = <<log[c][k].n>>
        /\ \A q \in IssuedOk(c, "CreatePR") :
            /\ HeadsRef(prs[log[c][q].n].Head) = log[c][k].ref
            /\ prs[log[c][q].n].Base = "main"
            /\ ret[c].num = log[c][q].n

C5_OtherErrorsFatal ==
    \A c \in Calls : \A k \in Issued(c, "CreatePR") :
        (~log[c][k].ok /\ log[c][k].err # "race") =>
            /\ \A j \in DOMAIN log[c] :
                   j > k => log[c][j].op \notin {"CreatePR", "Sleep"}
            /\ Failed(c)

\* The create-pull-request attempts and the sleeps of c, in order.
RetryLog(c) ==
    SelectSeq(log[c], LAMBDA e : e.op \in {"CreatePR", "Sleep"})

\* Every attempt of c failed with the race signature and the call returned.
AlwaysRaced(c) ==
    /\ Done(c)
    /\ Issued(c, "CreatePR") # {}
    /\ \A k \in Issued(c, "CreatePR") : ~log[c][k].ok /\ log[c][k].err = "race"

\* C6: when every attempt fails with the race signature, createPRWithRetry
\* issues exactly 10 create calls, sleeps 2,4,8,16,30,30,30,30,30,30 seconds
\* after them in that order, and returns "unable to create PR after 10
\* attempts".
C6_RetryBound ==
    \A c \in Calls :
        AlwaysRaced(c) =>
            /\ Cardinality(Issued(c, "CreatePR")) = 10
            /\ Len(RetryLog(c)) = 20
            /\ \A j \in 1..10 :
                /\ RetryLog(c)[2 * j - 1].op = "CreatePR"
                /\ RetryLog(c)[2 * j].op = "Sleep"
                /\ RetryLog(c)[2 * j].n = <<2, 4, 8, 16, 30, 30, 30, 30, 30, 30>>[j]
            /\ local[c].retryErr = <<"unable to create PR after 10 attempts">>
            /\ ret[c] = [NoRet EXCEPT !.err = <<"error creating PR",
                                                "unable to create PR after 10 attempts">>]

C6_Witness ==
    \E c \in Calls : AlwaysRaced(c) /\ Cardinality(Issued(c, "Sleep")) = 10


\* The failures of the commit path, as the publish call returns them.
CommitPathErrors ==
    { <<"error creating tree">>, <<"error getting commit">>, <<"error creating commit">>,
      <<"error updating reference">> }

\* C7: when a step of the commit path fails, the call returns a failure
\* having moved no ref: it has no successful update-ref, a branch it created
\* still points where it was created, and the commit it created (if any) is
\* reachable from no ref.
C7_CommitPathFailureMovesNoRef ==
    \A c \in Calls :
        (Done(c) /\ ret[c].err \in CommitPathErrors) =>
            /\ ret[c].num = 0 /\ ret[c].url = "" /\ ret[c].sha = 0
            /\ IssuedOk(c, "UpdateRef") = {}
            /\ \A k \in IssuedOk(c, "CreateRef") : refs[log[c][k].ref] = log[c][k].n
            /\ \A k \in IssuedOk(c, "CreateCommit") : \A r \in RefNames :
                   ~IsAncestor(log[c][k].n, refs[r])

C7_Witness ==
    \E c \in Calls :
        /\ Done(c) /\ ret[c].err = <<"error updating reference">>
        /\ IssuedOk(c, "CreateCommit") # {}
        /\ FetchedOpen(c)

\* C8: a publish call that fails leaves the host's branches and pull
\* requests as they were: no branch it created and no pull request it
\* created exists after it returned.
C8_FailureLeavesNothing ==
    \A c \in Calls :
        Failed(c) =>
            /\ \A k \in IssuedOk(c, "CreateRef") : refs[log[c][k].ref] = 0
            /\ \A k \in IssuedOk(c, "CreatePR") : log[c][k].n \notin DOMAIN prs

\* The SHA at which call c resolved the head ref of the pull request it reuses.
ResolvedAt(c) ==
    {log[c][k].n : k \in {j \in IssuedOk(c, "GetRef") :
                             log[c][j].ref = HeadsRef(local[c].pr.Head)}}

\* Calls c and d reuse the same open pull request from the same head commit.
SameHead(c, d) ==
    /\ c # d
    /\ FetchedOpen(c) /\ FetchedOpen(d)
    /\ local[c].pr.Number = local[d].pr.Number
    /\ ResolvedAt(c) # {} /\ ResolvedAt(c) = ResolvedAt(d)

\* C9: update-ref is always issued without force; of two calls that reuse
\* the same open pull request from the same head commit at most one
\* update-ref succeeds and the other call returns "error updating
\* reference"; a commit that a successful update-ref placed on a branch stays
\* in the history of that branch.
C9_ConflictingUpdateFails ==
    /\ \A c \in Calls : \A k \in Issued(c, "UpdateRef") : ~log[c][k].force
    /\ \A c \in Calls : \A d \in Calls :
        SameHead(c, d) =>
            /\ IssuedOk(c, "UpdateRef") = {} \/ IssuedOk(d, "UpdateRef") = {}
            /\ (IssuedOk(c, "UpdateRef") # {} /\ Issued(d, "UpdateRef") # {}) =>
                   ret[d] = [NoRet EXCEPT !.err = <<"error updating reference">>]
    /\ \A c \in Calls : \A k \in IssuedOk(c, "UpdateRef") :
           IsAncestor(log[c][k].n, refs[log[c][k].ref])

C9_Witness ==
    \E c \in Calls : \E d \in Calls :
        /\ SameHead(c, d)
        /\ Succeeded(c) /\ IssuedOk(c, "UpdateRef") # {}
        /\ Failed(d) /\ Issued(d, "UpdateRef") # {}
        /\ local[d].commit # 0 /\ refs[HeadsRef("feature")] = local[c].commit

\* C10: within one publish call request-reviewers is issued at most once,
\* only after the one successful create-pull-request of that call and for the
\* pull request it created, never when an open pull request is reused, and
\* no create-pull-request call follows a successful one.
C10_ReviewersOncePerCreation ==
    \A c \in Calls :
        /\ Cardinality(Issued(c, "RequestReviewers")) <= 1
        /\ Cardinality(IssuedOk(c, "CreatePR")) <= 1
        /\ \A k \in IssuedOk(c, "CreatePR") : \A j \in Issued(c, "CreatePR") : j <= k
        /\ \A k \in Issued(c, "RequestReviewers") :
               \E j \in IssuedOk(c, "CreatePR") : j < k /\ log[c][j].n = log[c][k].n
        /\ FetchedOpen(c) => Issued(c, "RequestReviewers") = {}

C10_Witness ==
    \E c \in Calls :
        /\ Succeeded(c)
        /\ Cardinality(Issued(c, "CreatePR")) >= 3
        /\ Cardinality(IssuedOk(c, "RequestReviewers")) = 1

\* C11: every publish call that returns the number and URL of a pull request
\* it created (article flow or place flow) has, before returning, issued a
\* request-reviewers call for that pull request that succeeded.
C11_CreatedPassedReviewers ==
    \A c \in Calls :
        (PullRequestCall(c) /\ Succeeded(c)) =>
            \A k \in IssuedOk(c, "CreatePR") :
                ret[c].num = log[c][k].n =>
                    \E j \in IssuedOk(c, "RequestReviewers") :
                        j > k /\ log[c][j].n = log[c][k].n

\* C12: when create-pull-request succeeded and request-reviewers then failed,
\* the pull request exists on the host and the call returns only the error:
\* number 0 and an empty URL.
C12_ReviewerFailureDiscardsPR ==
    \A c \in Calls : \A k \in Issued(c, "RequestReviewers") :
        ~log[c][k].ok =>
            /\ Done(c)
            /\ ret[c].err = <<"error requesting reviewers">>
            /\ ret[c].num = 0 /\ ret[c].url = ""
            /\ \E j \in IssuedOk(c, "CreatePR") :
                /\ j < k /\ log[c][j].n = log[c][k].n
                /\ log[c][j].n \in DOMAIN prs
                /\ HeadsRef(prs[log[c][j].n].Head) = local[c].prBranchRef.Ref

C12_Witness ==
    \E c \in Calls :
        /\ Failed(c) /\ ret[c].num = 0
        /\ \E k \in Issued(c, "RequestReviewers") :
            ~log[c][k].ok /\ log[c][k].n = 3 /\ prs[3].State = "open"

\* C13: every commit a publish call created has exactly one parent, the SHA
\* the call read when it resolved its branch (the head of main for a new
\* branch or a commit-only call, the head of the pull request's branch for a
\* reused one), and its tree was built against that same SHA.
C13_SingleParent ==
    \A c \in Calls : \A k \in IssuedOk(c, "CreateCommit") :
        LET sha == log[c][k].n IN
        /\ sha \in DOMAIN commits
        /\ Len(commits[sha].parents) = 1
        /\ commits[sha].tree.base = commits[sha].parents[1]
        /\ \A t \in IssuedOk(c, "CreateTree") : log[c][t].n = commits[sha].parents[1]
        /\ \A r \in IssuedOk(c, "CreateRef") : log[c][r].n = commits[sha].parents[1]
        /\ \E g \in IssuedOk(c, "GetRef") :
            /\ g < k
            /\ log[c][g].n = commits[sha].parents[1]
            /\ log[c][g].ref = IF FetchedOpen(c) THEN HeadsRef(local[c].pr.Head)
                               ELSE HeadsRef("main")

\* A commit created on a base that main has left since.
C13_Witness ==
    \E c \in Calls :
        /\ IssuedOk(c, "CreateCommit") # {}
        /\ ~FetchedOpen(c)
        /\ commits[local[c].commit].parents = <<1>>
        /\ refs[HeadsRef("main")] # 1

\* Branch resolution of c had succeeded when its log had k entries.
ResolvedBefore(c, k) ==
    \/ \E j \in IssuedOk(c, "CreateRef") : j < k
    \/ \E j \in IssuedOk(c, "GetRef") :
        j < k /\ (kind[c] = "commit" \/ log[c][j].ref # HeadsRef("main"))

\* The whole build of c had succeeded when its log had k entries.
BuiltBefore(c, k) ==
    /\ \A j \in Issued(c, "Format") : j < k /\ log[c][j].ok
    /\ \A f \in FilesOf(kind[c], slug[c], params[c]) :
        \E j \in Issued(c, "Format") : log[c][j].ref = f

\* C14: the steps of one publish call come in the order branch resolution,
\* build, commit, pull request: a formatter call only after branch resolution
\* succeeded, create-tree only after the whole build succeeded, update-ref
\* only after create-commit succeeded, create-pull-request only after
\* update-ref succeeded, and each host call after the one before it returned
\* with success.
C14_StepsInOrder ==
    \A c \in Calls : \A k \in DOMAIN log[c] :
        /\ log[c][k].op = "Format" => ResolvedBefore(c, k)
        /\ log[c][k].op = "CreateTree" => ResolvedBefore(c, k) /\ BuiltBefore(c, k)
        /\ log[c][k].op = "GetCommit" => \E j \in IssuedOk(c, "CreateTree") : j < k
        /\ log[c][k].op = "CreateCommit" => \E j \in IssuedOk(c, "GetCommit") : j < k
        /\ log[c][k].op = "UpdateRef" =>
               \E j \in IssuedOk(c, "CreateCommit") : j < k /\ log[c][j].n = log[c][k].n
        /\ log[c][k].op = "CreatePR" =>
               \E j \in IssuedOk(c, "UpdateRef") : j < k /\ log[c][j].ref = log[c][k].ref
        /\ (log[c][k].op \in HostOps /\ k > 1 /\ log[c][k - 1].op \in HostOps) =>
               \/ log[c][k - 1].ok
               \/ log[c][k - 1].op = "CreatePR" /\ log[c][k].op = "CreatePR"

C14_Witness ==
    \E c \in Calls :
        /\ Succeeded(c) /\ kind[c] = "article"
        /\ Cardinality(Issued(c, "Format")) = 3
        /\ IssuedOk(c, "CreateRef") # {}
        /\ IssuedOk(c, "RequestReviewers") # {}

OnlyLocations(p) ==
    /\ p.Locations # ""
    /\ ~p.Article.present /\ ~p.Place
    /\ p.BodyHTML = "" /\ p.ArticleJS = "" /\ p.TeaserGeoJSON = "" /\ p.TeaserJS = ""

\* The paths of the entries call c built.
BuiltPaths(c) == [j \in DOMAIN local[c].treeEntries |-> local[c].treeEntries[j].Path]

\* C16: from an artifact set that holds only non-empty locations,
\* treeEntriesFromParams builds exactly two entries, <path>/locations.geojson
\* and <path>/locations.js.
C16_LocationsPair ==
    \A c \in Calls :
        (kind[c] \in {"article", "commit"} /\ OnlyLocations(params[c])
         /\ pc[c] = "CreateTree") =>
            BuiltPaths(c) = << articlePath(slug[c], params[c]) \o "/locations.geojson",
                               articlePath(slug[c], params[c]) \o "/locations.js" >>

\* The content the builder hands to the formatter for file f of call c.
OffendingContent(c, f) ==
    LET path == articlePath(slug[c], params[c]) IN
    CASE f = path \o "/article.json" -> MarshalIndent(params[c].Article)
      [] f = path \o "/article.html" -> params[c].BodyHTML
      [] f = path \o "/article.js" -> params[c].ArticleJS
      [] f = path \o "/teaser.geojson" -> params[c].TeaserGeoJSON
      [] f = path \o "/teaser.js" -> params[c].TeaserJS
      [] f = path \o "/locations.geojson" -> params[c].Locations
      [] OTHER -> "console.debug('locations.js');"

\* C17: when the formatter fails on an artifact of the article builder, the
\* build fails as a whole and the failure returned carries the content of
\* that artifact.
C17_FormatFailureCarriesContent ==
    \A c \in Calls : \A k \in Issued(c, "Format") :
        (kind[c] \in {"article", "commit"} /\ ~log[c][k].ok) =>
            /\ Failed(c)
            /\ \E j \in DOMAIN ret[c].err :
                   ret[c].err[j] = OffendingContent(c, log[c][k].ref)

\* C18: when the formatter fails on any artifact, the publish call returns a
\* failure right there and issues no create-tree, create-commit, update-ref,
\* create-pull-request or request-reviewers call, whatever was formatted
\* before.
C18_FormatFailureCommitsNothing ==
    \A c \in Calls : \A k \in Issued(c, "Format") :
        ~log[c][k].ok =>
            /\ Failed(c)
            /\ ret[c].num = 0 /\ ret[c].url = "" /\ ret[c].sha = 0
            /\ k = Len(log[c])
            /\ \A j \in DOMAIN log[c] :
                   log[c][j].op \notin {"CreateTree", "GetCommit", "CreateCommit",
                                        "UpdateRef", "CreatePR", "RequestReviewers"}

\* The formatter failed on the third file, after two were formatted.
C18_Witness ==
    \E c \in Calls :
        /\ Failed(c)
        /\ Cardinality(IssuedOk(c, "Format")) = 2
        /\ \E k \in Issued(c, "Format") : ~log[c][k].ok /\ k = Len(log[c])

\* C19: from an artifact set whose fields are all empty (Article nil, every
\* string empty) treeEntriesFromParams returns no entry and no error and does
\* not call the formatter.
C19_EmptySetBuildsNothing ==
    \A c \in Calls :
        (kind[c] \in {"article", "commit"} /\ pc[c] # "idle"
         /\ EmptyChangeSet(params[c])) =>
            /\ Issued(c, "Format") = {}
            /\ local[c].treeEntries = <<>>
            /\ Failed(c) =>
                   \A j \in DOMAIN ret[c].err : ret[c].err[j] # "error creating tree entries"

C19_Witness ==
    \E c \in Calls :
        /\ kind[c] \in {"article", "commit"} /\ EmptyChangeSet(params[c])
        /\ pc[c] = "CreateTree"
        /\ local[c].treeEntries = <<>> /\ log[c][Len(log[c])].op # "Format"

\* The host calls of branch resolution and of the commit path.
ResolutionOps == {"GetRef", "CreateRef", "GetPR"}
CommitPathOps == {"CreateTree", "GetCommit", "CreateCommit", "UpdateRef"}

\* C20: a publish call issues each host call of branch resolution and of the
\* commit path at most once; when one of them fails (in branch resolution of
\* the pull-request flows, on the commit path of every flow) it is the last
\* call of the publish call, which returns a failure.
C20_NoRetryOffPullRequestPath ==
    \A c \in Calls :
        /\ \A op \in ResolutionOps \cup CommitPathOps : Cardinality(Issued(c, op)) <= 1
        /\ \A k \in DOMAIN log[c] :
            (/\ ~log[c][k].ok
             /\ \/ log[c][k].op \in CommitPathOps
                \/ log[c][k].op \in ResolutionOps /\ PullRequestCall(c)) =>
                /\ k = Len(log[c])
                /\ Failed(c)
                /\ ret[c].num = 0 /\ ret[c].url = "" /\ ret[c].sha = 0

C20_Witness ==
    \E c \in Calls :
        /\ Failed(c) /\ ret[c].err = <<"error getting commit">>
        /\ FetchedClosed(c)
        /\ Cardinality(IssuedOk(c, "GetRef")) = 1 /\ Cardinality(IssuedOk(c, "CreateRef")) = 1

\* The terminal states of a pull-request call.
DoneReuse(c) == Succeeded(c) /\ IssuedOk(c, "CreatePR") = {} /\ ret[c].num = local[c].pr.Number
DoneCreated(c) ==
    Succeeded(c) /\ \E k \in IssuedOk(c, "CreatePR") : ret[c].num = log[c][k].n
Terminal(c) == DoneReuse(c) \/ DoneCreated(c) \/ Failed(c)

\* C21: every pull-request call that was started ends in DONE(reuse),
\* DONE(created) or FAILED(reason), whatever the host answers, and it never
\* makes more than 10 create-pull-request attempts.
C21_Terminates ==
    /\ \A c \in Calls : PullRequestCall(c) ~> Terminal(c)
    /\ [](\A c \in Calls :
            /\ Cardinality(Issued(c, "CreatePR")) <= 10
            /\ (PullRequestCall(c) /\ Done(c)) => Terminal(c))

\* A call that ended after ten attempts, not all of them raced.
C21_Witness ==
    \E c \in Calls :
        /\ Failed(c)
        /\ Cardinality(Issued(c, "CreatePR")) = 10
        /\ \E k \in Issued(c, "CreatePR") : log[c][k].err = "response"

\* C22: after CreateArticleCommit returned a commit SHA without error,
\* refs/heads/main on the host points at that commit or at a descendant of it.
C22_CommitAdvancesMain ==
    \A c \in Calls :
        (kind[c] = "commit" /\ Succeeded(c)) =>
            /\ ret[c].sha # 0
            /\ IsAncestor(ret[c].sha, refs[HeadsRef("main")])

\* C23: CreateArticleCommit never crashes the process: whichever step fails,
\* it returns an empty SHA and an error.
C23_CommitReturnsFailures ==
    \A c \in Calls :
        kind[c] = "commit" =>
            /\ pc[c] # "panic"
            /\ \A k \in DOMAIN log[c] :
                   ~log[c][k].ok => (Failed(c) /\ ret[c].sha = 0)

\* C24: any two calls that take the new-branch path, also within the same
\* second, target distinct branch names: the refs they ask the host to create,
\* commit to and open pull requests from differ.
C24_NoSharedBranchName ==
    \A c \in Calls : \A d \in Calls \ {c} :
        \A k \in Issued(c, "CreateRef") : \A j \in Issued(d, "CreateRef") :
            log[c][k].ref # log[d][j].ref

\* Run is through with event id.
Handled(id) ==
    /\ id \in 1..bot.arrived
    /\ \A k \in DOMAIN bot.queue : bot.queue[k].id # id
    /\ bot.pc = "range" \/ bot.evt.id # id

\* The handler of event id returned an error (from some invocation).
HandlerFailed(id) ==
    \E k \in DOMAIN bot.out :
        bot.out[k].op = "Return" /\ bot.out[k].id = id /\ bot.out[k].payload = "error"

\* What the user is shown for event id: replies, and acknowledgements that
\* carry a payload.
Responses(id) ==
    {k \in DOMAIN bot.out :
        /\ bot.out[k].id = id
        /\ \/ bot.out[k].op = "Reply"
           \/ bot.out[k].op = "Ack" /\ bot.out[k].payload # ""}

\* C25: for every event whose handler returned an error, Run sends exactly
\* one error block for that event, and nothing it sends for the event comes
\* after the error block.
C25_OneFinalErrorBlock ==
    \A id \in 1..bot.arrived :
        (Handled(id) /\ HandlerFailed(id)) =>
            /\ Cardinality({k \in Responses(id) : bot.out[k].payload = ErrorBlock}) = 1
            /\ \A k \in Responses(id) : \A j \in Responses(id) :
                   bot.out[k].payload = ErrorBlock => j <= k

\* The canonical filenames of an article's artifacts, in the fixed order.
CanonicalNames ==
    <<"article.json", "article.html", "article.js", "teaser.geojson", "teaser.js",
      "locations.geojson", "locations.js">>

\* The canonical filenames under the target path of a build.
CanonicalPaths(targetPath) ==
    [j \in DOMAIN CanonicalNames |-> targetPath \o "/" \o CanonicalNames[j]]

\* The build of an article call has produced its entries.
Built(c) == kind[c] # "place" /\ pc[c] = "CreateTree"

\* The paths among `paths` that are in `emitted`, in the order of `paths`.
Subsequence(paths, emitted) == SelectSeq(paths, LAMBDA f : f \in emitted)

\* C26: whatever the order of the options, the entries of a build are the
\* canonical files article.json, article.html, article.js, teaser.geojson,
\* teaser.js, locations.geojson, locations.js that were emitted, in that order.
C26_StableEntryOrder ==
    \A c \in Calls :
        Built(c) =>
            BuiltPaths(c) =
                Subsequence(CanonicalPaths(articlePath(slug[c], params[c])),
                            {BuiltPaths(c)[j] : j \in DOMAIN BuiltPaths(c)})

\* C26 witness: a build of three entries whose options came in the reverse of
\* the canonical order.
C26_Witness ==
    \E c \in Calls :
        /\ Built(c)
        /\ Len(options[c]) = 3
        /\ options[c][1].field = "TeaserJS"
        /\ options[c][2].field = "ArticleJS"
        /\ options[c][3].field = "BodyHTML"
        /\ Len(local[c].treeEntries) = 3

\* C27: every entry of a build is a blob of mode 100644 at
\* articles/<slug>/<canonical filename>, or archive/articles/<slug>/... with
\* InArchive set, and no two entries of a build have the same path.
C27_EntryShape ==
    \A c \in Calls :
        Built(c) =>
            LET targetPath == IF params[c].InArchive THEN "archive/articles/" \o slug[c]
                              ELSE "articles/" \o slug[c]
                e == local[c].treeEntries
            IN  /\ \A j \in DOMAIN e :
                    /\ e[j].Mode = "100644"
                    /\ e[j].Type = "blob"
                    /\ \E n \in DOMAIN CanonicalNames :
                           e[j].Path = targetPath \o "/" \o CanonicalNames[n]
                /\ \A j \in DOMAIN e : \A k \in DOMAIN e : e[j].Path = e[k].Path => j = k

\* C27 witness: an archived build with the locations pair and the article.
C27_Witness ==
    \E c \in Calls :
        /\ Built(c)
        /\ params[c].InArchive
        /\ Len(local[c].treeEntries) = 3
        /\ local[c].treeEntries[3].Path = "archive/articles/slug/locations.js"

\* The pull requests on the host that call c created.
CreatedBy(c) ==
    {n \in DOMAIN prs : \E k \in IssuedOk(c, "CreatePR") : log[c][k].n = prs[n].Number}

\* C28: a publish call creates at most one pull request: after a create call
\* that succeeded it issues no other and has none pending, whether the call
\* then succeeds or fails.
C28_AtMostOnePR ==
    \A c \in Calls :
        /\ Cardinality(CreatedBy(c)) <= 1
        /\ \A k \in IssuedOk(c, "CreatePR") :
            /\ pc[c] \notin {"CreatePR", "Sleep"}
            /\ \A j \in DOMAIN log[c] : j > k => log[c][j].op \notin {"CreatePR", "Sleep"}

\* C28 witness: a call that created its pull request after two failed
\* attempts and then failed at the reviewers request.
C28_Witness ==
    \E c \in Calls :
        /\ Failed(c)
        /\ Cardinality(Issued(c, "CreatePR")) = 3
        /\ Cardinality(CreatedBy(c)) = 1
        /\ \E k \in Issued(c, "RequestReviewers") : ~log[c][k].ok

\* The create call of c succeeded after nothing but race failures.
RacedThenCreated(c) ==
    /\ IssuedOk(c, "CreatePR") # {}
    /\ \A k \in Issued(c, "CreatePR") : ~log[c][k].ok => log[c][k].err = "race"

\* min(2 * 2^i, 30)
CappedDelay(i) == IF 2 * 2^i < 30 THEN 2 * 2^i ELSE 30

\* C29: when create-pull-request fails with the race signature k times in a
\* row (k < 10) and then succeeds, createPRWithRetry has made k+1 attempts
\* and slept k times, min(2*2^i, 30) seconds after attempt i, it returns the
\* pull request created, and the call reports none of the race failures.
C29_RacesThenSuccess ==
    \A c \in Calls :
        RacedThenCreated(c) =>
            LET r == RetryLog(c)
                k == Cardinality(Issued(c, "CreatePR") \ IssuedOk(c, "CreatePR"))
            IN  /\ k < 10
                /\ Len(r) = 2 * k + 1
                /\ \A i \in 0..(k - 1) :
                    /\ r[2 * i + 1].op = "CreatePR" /\ ~r[2 * i + 1].ok
                    /\ r[2 * i + 2].op = "Sleep" /\ r[2 * i + 2].n = CappedDelay(i)
                /\ r[2 * k + 1].op = "CreatePR" /\ r[2 * k + 1].ok
                /\ local[c].activePR.Number = r[2 * k + 1].n
                /\ local[c].retryErr = NoErr
                /\ Done(c) => ret[c].err \in {NoErr, <<"error requesting reviewers">>}
                /\ Succeeded(c) => ret[c] = Returned(prs[r[2 * k + 1].n])

\* C29 witness: nine race failures, then the pull request is created and the
\* call returns it.
C29_Witness ==
    \E c \in Calls :
        /\ RacedThenCreated(c)
        /\ Succeeded(c)
        /\ Cardinality(Issued(c, "CreatePR")) = 10
        /\ ret[c].num = 3

\* The create-ref and update-ref calls of c.
RefWrites(c) == Issued(c, "CreateRef") \cup Issued(c, "UpdateRef")

\* The frame of a call on the refs of the host: no call but the host calls of
\* the publish flows (none of which deletes a ref), at most one create-ref,
\* under a scottie-<timestamp> name, at most one update-ref, of the branch the
\* call created or of the head branch of the open pull request it reuses, and
\* neither in CreateArticleCommit.
RefFrame(c) ==
    /\ \A k \in DOMAIN log[c] : log[c][k].op \in HostOps \cup {"Format", "Sleep"}
    /\ Cardinality(Issued(c, "CreateRef")) <= 1
    /\ Cardinality(Issued(c, "UpdateRef")) <= 1
    /\ \A k \in Issued(c, "CreateRef") :
        /\ ~FetchedOpen(c)
        /\ \E t \in 0..MaxTime : log[c][k].ref = HeadsRef(newBranch(t))
    /\ \A k \in Issued(c, "UpdateRef") :
        IF FetchedOpen(c)
        THEN Issued(c, "CreateRef") = {} /\ log[c][k].ref = HeadsRef(local[c].pr.Head)
        ELSE \E j \in IssuedOk(c, "CreateRef") : j < k /\ log[c][j].ref = log[c][k].ref
    /\ kind[c] = "commit" => RefWrites(c) = {}

\* C30 as stated: no call writes refs/heads/main or deletes a ref; a call
\* creates and updates only its own new branch or updates the head branch of
\* the pull request it reuses; CreateArticleCommit writes no ref.
C30_NeverWritesMain ==
    \A c \in Calls :
        /\ RefFrame(c)
        /\ \A k \in RefWrites(c) : log[c][k].ref # HeadsRef("main")

\* C30 amended: a call writes refs/heads/main only by the update of the head
\* branch of the open pull request it reuses, when that head branch is main;
\* the rest of the frame is as stated.
C30_WritesOwnBranchOrReusedHead ==
    \A c \in Calls :
        /\ RefFrame(c)
        /\ \A k \in RefWrites(c) :
            log[c][k].ref = HeadsRef("main") =>
                /\ log[c][k].op = "UpdateRef"
                /\ FetchedOpen(c)
                /\ local[c].pr.Head = "main"

\* C30 witness: a call that reused the pull request whose head is main has
\* moved main to its commit.
C30_Witness ==
    \E c \in Calls :
        /\ FetchedOpen(c) /\ Succeeded(c)
        /\ local[c].pr.Head = "main"
        /\ IssuedOk(c, "UpdateRef") # {}
        /\ refs[HeadsRef("main")] = local[c].commit

\* Call c, which fetched its pull request open, moves the head of that pull
\* request in this step or returns its number as a reuse.
ReuseStep(c) ==
    /\ FetchedOpen(c)
    /\ pc[c] = "UpdateRef"
    /\ \/ refs'[HeadsRef(local[c].pr.Head)] # refs[HeadsRef(local[c].pr.Head)]
       \/ pc'[c] = "done" /\ ret'[c].err = NoErr /\ ret'[c].num = local[c].pr.Number

\* C31: a call that reuses a pull request pushes to its head and returns its
\* number only while the pull request is open on the host: when the pull
\* request was closed after the call fetched it, the update-ref step neither
\* moves the head nor returns the number as a reuse.
C31_ReuseOnlyWhileOpen ==
    [][\A c \in Calls : ReuseStep(c) => prs[local[c].pr.Number].State = "open"]_vars

\* The builder of call c was given locations it has to emit.
LocationsDue(c) ==
    /\ params[c].Locations # ""
    /\ params[c].Article.present
    /\ params[c].Article.GeoJSONDatasets # <<>>
    /\ Head(params[c].Article.GeoJSONDatasets) = "locations"

\* The entries of call c hold the file `name` of its target path.
Emitted(c, name) ==
    \E j \in DOMAIN local[c].treeEntries :
        local[c].treeEntries[j].Path = articlePath(slug[c], params[c]) \o "/" \o name

\* C32: a build emits locations.js exactly when it emits locations.geojson,
\* and both exactly when Locations is non-empty, Article is non-nil and its
\* first dataset is named "locations"; otherwise the locations are never
\* handed to the formatter, so no failure can come from them.
C32_LocationsPairIff ==
    \A c \in Calls :
        /\ Built(c) =>
            /\ Emitted(c, "locations.js") <=> Emitted(c, "locations.geojson")
            /\ Emitted(c, "locations.geojson") <=> LocationsDue(c)
        /\ (kind[c] # "place" /\ ~LocationsDue(c)) =>
            \A k \in Issued(c, "Format") :
                log[c][k].ref \notin
                    {articlePath(slug[c], params[c]) \o "/locations.geojson",
                     articlePath(slug[c], params[c]) \o "/locations.js"}

\* C32 witness: locations given with an article whose first dataset has
\* another name: the build succeeds with the article alone.
C32_Witness ==
    \E c \in Calls :
        /\ Built(c)
        /\ params[c].Locations # ""
        /\ params[c].Article.GeoJSONDatasets = <<"other">>
        /\ Len(local[c].treeEntries) = 1
        /\ Emitted(c, "article.json")

\* The files a fetch that succeeded has read, in order.
FilesRead(c) ==
    LET reads == SelectSeq(log[c], LAMBDA e : e.op = "GetContents")
    IN  [j \in DOMAIN reads |-> reads[j].ref]

\* C33: a fetch reads the head of main once and reads every file at the
\* commit it found there, whatever is pushed to main meanwhile; a fetch that
\* succeeds has read article.json, article.html, article.js (and
\* locations.geojson when that article.json lists the dataset), or poi.json
\* and body.html, all of one commit.
C33_FetchSnapshot ==
    \A c \in Calls :
        kind[c] \in FetchKinds =>
            /\ Cardinality(Issued(c, "GetRef")) <= 1
            /\ \A k \in Issued(c, "GetContents") :
                   \E j \in IssuedOk(c, "GetRef") :
                       /\ j < k
                       /\ log[c][j].ref = HeadsRef("main")
                       /\ log[c][k].n = log[c][j].n
            /\ Succeeded(c) =>
                FilesRead(c) =
                    IF kind[c] = "fetchPlace"
                    THEN <<"active_places/slug/poi.json", "active_places/slug/body.html">>
                    ELSE <<"articles/slug/article.json", "articles/slug/article.html",
                           "articles/slug/article.js">>
                         \o (IF local[c].ref.SHA = 1 THEN <<"articles/slug/locations.geojson">>
                             ELSE <<>>)

\* C33 witness: main was pushed to while a fetch of an article was between
\* its reads of article.js and locations.geojson.
C33_Witness ==
    \E c \in Calls :
        /\ kind[c] = "fetchArticle"
        /\ pc[c] = "locations.geojson"
        /\ Cardinality(IssuedOk(c, "GetContents")) = 3
        /\ refs[HeadsRef("main")] # local[c].ref.SHA

\* The acknowledgements Run sent for event id.
Acks(id) == {k \in DOMAIN bot.out : bot.out[k].op = "Ack" /\ bot.out[k].id = id}

\* Run has just finished the iteration for a slash command.
SlashDone == bot.pc = "range" /\ bot.evt.type = "slash_commands"

\* C34: when Run is through with a slash-command event it has called
\* Socket.Ack exactly once for it, whether the handler succeeded, failed or
\* is not installed.
C34_SlashAckedOnce ==
    SlashDone => Cardinality(Acks(bot.evt.id)) = 1

\* C35: Run handles the events one at a time in the order they arrived:
\* what it sends and calls is ordered by event, a handler invocation is
\* followed by its own return before anything else happens, and while the
\* handler of an event runs no later event has been taken or acknowledged.
C35_OneEventAtATime ==
    /\ \A k \in DOMAIN bot.out : \A j \in DOMAIN bot.out :
           k < j => bot.out[k].id <= bot.out[j].id
    /\ \A k \in DOMAIN bot.out :
           bot.out[k].op = "Invoke" =>
               IF k = Len(bot.out) THEN bot.pc = "running" /\ bot.evt.id = bot.out[k].id
               ELSE /\ bot.out[k + 1].op = "Return"
                    /\ bot.out[k + 1].id = bot.out[k].id
                    /\ bot.out[k + 1].i = bot.out[k].i
    /\ \A k \in DOMAIN bot.queue :
           /\ bot.queue[k].id = bot.evt.id + k
           /\ \A j \in DOMAIN bot.out : bot.out[j].id # bot.queue[k].id

\* C35 witness: the handler of the first event is running while a second
\* event, which Run acknowledges before its handler, waits unacknowledged.
C35_Witness ==
    /\ bot.pc = "running"
    /\ bot.evt.id = 1
    /\ Len(bot.queue) = 1
    /\ bot.queue[1].type = "events_api" /\ bot.queue[1].ok
    /\ Acks(2) = {}

\* Generate processes article id: it is live and has a publication date.
Eligible(id) == search.articles[id].IsLive /\ search.articles[id].PubDate # ""

\* The requests of run r for article id with operation op.
Requests(r, id, op) ==
    {k \in DOMAIN search.out :
        search.out[k].run = r /\ search.out[k].id = id /\ search.out[k].op = op}

\* Run r has returned.
Returned36(r) == search.run > r \/ (search.run = r /\ search.pos = 0)

\* Run r left every eligible article indexed: found as stored, or upserted.
IndexedAll(r) ==
    /\ Returned36(r)
    /\ \A id \in DOMAIN search.articles :
        Eligible(id) =>
            \/ \E k \in Requests(r, id, "Upsert") : search.out[k].ok
            \/ /\ \E k \in Requests(r, id, "Fetch") : search.out[k].ok /\ search.out[k].stored
               /\ Requests(r, id, "Embed") = {}

\* What holds of Generate whatever the index answers: requests are made for
\* live articles with a publication date only, at most one upsert per
\* article and run, and every such article of a run is processed whatever
\* failed before it.
GenerateFrame ==
    /\ \A k \in DOMAIN search.out : Eligible(search.out[k].id)
    /\ \A r \in Runs : \A id \in DOMAIN search.articles :
        /\ Cardinality(Requests(r, id, "Upsert")) <= 1
        /\ Cardinality(Requests(r, id, "Embed")) <= 1
        /\ (Eligible(id) /\ (Returned36(r) \/ (search.run = r /\ id < search.pos))) =>
               Cardinality(Requests(r, id, "Fetch")) = 1

FetchedOk(k) ==
    \E j \in Requests(search.out[k].run, search.out[k].id, "Fetch") : search.out[j].ok

====
